---- MODULE Spec2Model ----
(***************************************************************************)
(* Verification model of the geometry and style resolution code of the     *)
(* IDML importer: affine transform algebra (transforms.ts), path geometry  *)
(* and placement (utils.ts), colour and gradient resolution (utils.ts),    *)
(* the text flow partitioner (text frame utilities: frame ordering and     *)
(* text split) and the parser (index.ts).                                  *)
(*                                                                         *)
(* Numbers are modelled exactly over the integers.  Where the code works   *)
(* with fractions, a value is kept as a pair <<num, den>> with den > 0.    *)
(***************************************************************************)
EXTENDS Integers, Sequences, FiniteSets, TLC

VARIABLES
  transforms,        \* Matrix[] handed to multiplyItemTransforms
  combined,          \* optional result of multiplyItemTransforms
  point,             \* optional point handed to transformPoint
  mapped,            \* optional result of transformPoint
  pathGeometry,      \* a PathGeometry element: PathOpen and its PathPointType points
  shapeGeometry,     \* optional result of parsePathGeometry
  containers,        \* ancestors of the element, outermost (child of Spread) first
  elementItemTransform, \* ItemTransform of the element
  page,              \* the Page element: ItemTransform and GeometricBounds
  placement,         \* optional result of getTransformAndShapeProperties
  colorTag,          \* a Color element: Space and ColorValue
  rgba,              \* optional colour computed for colorTag
  colorLog,          \* messages logged by extractColors
  gradientAngle,     \* angleInDegrees of angleToGradientControlPoints
  gradientAspect,    \* aspectRatio as <<width, height>>
  controlPoints,     \* optional result of angleToGradientControlPoints
  textFrames,        \* input of orderTextFrames
  pc,                \* position inside orderTextFrames
  currentFrame,      \* optional frame the walk is at
  ordered,           \* frames collected so far
  visited,           \* Self ids seen so far
  orderResult,       \* optional return value of orderTextFrames
  warnings,          \* console.warn messages emitted by orderTextFrames
  fullText,          \* text handed to calculateSplitIndices
  numFrames,         \* frame count handed to calculateSplitIndices
  splitIndices,      \* optional result of calculateSplitIndices
  idml,              \* the unzipped document: its spreads
  parser,            \* the IDMLParser: "none", "new", "constructed" or "failed" (constructor threw)
  colors,            \* optional this.colors
  gradients,         \* optional this.gradients
  scene,             \* optional scene/pageDimensions
  parseState,        \* the promise of parse(): "idle", "pending", "resolved", "rejected"
  parseCalls,        \* number of parse() calls made
  logger,            \* this.logger: the messages logged
  stack,             \* the page blocks appended to the stack block, with their children
  spreadTask,        \* per spread, the promise of its callback in generatePagesFromSpreads
  elementTask,       \* per spread and element, the promise of its callback in renderPageElements
  gradientTag,       \* a Gradient element handed to extractGradients
  gradientEntry,     \* optional Gradient extractGradients maps it to
  updateCalls,       \* the calls of updateString made by updateFrameContents, in order
  consoleErrors,     \* blocks of the console.error lines of updateFrameContents
  updateOutcome,     \* "none", then "returned" or "threw": how updateFrameContents ended
  renderChildren,    \* the page items renderPageElements is called for
  renderTask,        \* per page item, the promise of its callback and the blocks it returned
  nestedTask,        \* per page item, the same for the children of a Group
  pageChildren,      \* the children of the page block, back to front
  renderState,       \* "idle", "pending" or "resolved": the promise of renderPageElements
  completionOrder,   \* the children of the spread in the order their callbacks returned
  renderLog,         \* the messages logged while rendering
  contentText,       \* the text of a Content element of a story
  innerHTML,         \* its serialisation, child.innerHTML
  rangeContent,      \* optional text replaceSpecialCharacters makes of it
  assetSources,      \* the ids of the asset sources of the engine
  sourceAssets,      \* the assets added to the source "ly.img.google-fonts", in order
  contentAssets,     \* the assets of the content.json that fetchGoogleFonts fetches
  fontCall,          \* per call of addGoogleFontsAssetLibrary, the state of its promise
  typefaceResult     \* optional outcome of the latest call of fontResolver

transformVars == <<transforms, combined, point, mapped>>
pathVars == <<pathGeometry, shapeGeometry>>
placementVars == <<containers, elementItemTransform, page, placement>>
colorVars == <<colorTag, rgba, colorLog>>
gradientVars == <<gradientAngle, gradientAspect, controlPoints>>
frameVars == <<textFrames, pc, currentFrame, ordered, visited, orderResult, warnings>>
splitVars == <<fullText, numFrames, splitIndices>>
stopVars == <<gradientTag, gradientEntry>>
updateVars == <<updateCalls, consoleErrors, updateOutcome>>
entityVars == <<contentText, innerHTML, rangeContent>>
fontVars == <<assetSources, sourceAssets, contentAssets, fontCall, typefaceResult>>
renderVars ==
  <<renderChildren, renderTask, nestedTask, pageChildren, renderState, completionOrder, renderLog>>
parseVars == <<idml, parser, colors, gradients, scene, parseState, parseCalls, logger, stack, spreadTask, elementTask>>
vars == <<transformVars, pathVars, placementVars, colorVars, gradientVars, frameVars, splitVars, parseVars, stopVars, updateVars, renderVars, entityVars, fontVars>>

\* An optional value: None, or Some(x).
None == <<>>
Some(x) == <<x>>
Get(o) == o[1]

Min2(x, y) == IF x <= y THEN x ELSE y
Max2(x, y) == IF x >= y THEN x ELSE y
Abs(x) == IF x < 0 THEN -x ELSE x

RECURSIVE SeqsUpTo(_, _)
\* all sequences over S of length 0..n
SeqsUpTo(S, n) ==
  IF n = 0 THEN {<<>>}
  ELSE LET shorter == SeqsUpTo(S, n - 1)
       IN shorter \cup {Append(s, x) : s \in {t \in shorter : Len(t) = n - 1}, x \in S}

(***************************************************************************)
(* Bounds of the model.                                                    *)
(***************************************************************************)
MaxChain == 3
MaxPoints == 2
MaxDepth == 2
MaxSide == 3
MaxFrameCount == 3
MaxShortText == 3
MaxElements == 2
MaxParseCalls == 2
MaxStops == 2
MaxRenderElements == 2
MaxContent == 4
MaxFontCalls == 3

(***************************************************************************)
(* Affine transform algebra (transforms.ts).                               *)
(* A Matrix is <<a, b, c, d, e, f>>.                                       *)
(***************************************************************************)
Identity == <<1, 0, 0, 1, 0, 0>>

\* linear parts <<a, b, c, d>>: identity, scale, a quarter turn, a general matrix
LinearParts ==
  { <<1, 0, 0, 1>>, <<2, 0, 0, 3>>, <<0, 1, -1, 0>>, <<1, 2, 3, 4>> }

Translations == { <<0, 0>>, <<1, 0>>, <<0, 1>>, <<10, 20>> }

Matrices ==
  { <<l[1], l[2], l[3], l[4], t[1], t[2]>> : l \in LinearParts, t \in Translations }

Points == { <<0, 0>>, <<1, 0>>, <<0, 1>>, <<2, -3>> }

\* the reducer of multiplyItemTransforms with the translation of the left matrix lost
MatMulNoLeftTranslation(acc, current) ==
  <<acc[1] * current[1] + acc[3] * current[2],
    acc[2] * current[1] + acc[4] * current[2],
    acc[1] * current[3] + acc[3] * current[4],
    acc[2] * current[3] + acc[4] * current[4],
    acc[1] * current[5] + acc[3] * current[6],
    acc[2] * current[5] + acc[4] * current[6]>>

\* the reducer of the earlier variant of multiplyItemTransforms (row-vector product)
MatMulRowVector(acc, current) ==
  <<acc[1] * current[1] + acc[2] * current[3],
    acc[1] * current[2] + acc[2] * current[4],
    acc[3] * current[1] + acc[4] * current[3],
    acc[3] * current[2] + acc[4] * current[4],
    acc[5] * current[1] + acc[6] * current[3] + current[5],
    acc[5] * current[2] + acc[6] * current[4] + current[6]>>

\* the reducer with the translation of the right matrix added instead of the left one
MatMulRightTranslation(acc, current) ==
  <<acc[1] * current[1] + acc[3] * current[2],
    acc[2] * current[1] + acc[4] * current[2],
    acc[1] * current[3] + acc[3] * current[4],
    acc[2] * current[3] + acc[4] * current[4],
    acc[1] * current[5] + acc[3] * current[6] + current[5],
    acc[2] * current[5] + acc[4] * current[6] + current[6]>>

\* the reducer callback of multiplyItemTransforms: M_result = M1 * M2
MatMul(acc, current) ==
  <<acc[1] * current[1] + acc[3] * current[2],
    acc[2] * current[1] + acc[4] * current[2],
    acc[1] * current[3] + acc[3] * current[4],
    acc[2] * current[3] + acc[4] * current[4],
    acc[1] * current[5] + acc[3] * current[6] + acc[5],
    acc[2] * current[5] + acc[4] * current[6] + acc[6]>>

RECURSIVE Reduce(_, _)
\* transforms.reduce(MatMul, acc)
Reduce(acc, ts) ==
  IF ts = <<>> THEN acc ELSE Reduce(MatMul(acc, Head(ts)), Tail(ts))

multiplyItemTransforms(ts) == Reduce(Identity, ts)

transformPoint(matrix, p) ==
  <<matrix[1] * p[1] + matrix[3] * p[2] + matrix[5],
    matrix[2] * p[1] + matrix[4] * p[2] + matrix[6]>>

transformPointThroughTransforms(ts, p) ==
  transformPoint(multiplyItemTransforms(ts), p)

getPageTransformMatrix(itemTransform) ==
  <<1, 0, 0, 1, -itemTransform[5], -itemTransform[6]>>

toPagePosition(pageItemTransform, p) ==
  <<p[1] - pageItemTransform[5], p[2] - pageItemTransform[6]>>

(***************************************************************************)
(* Path geometry (utils.ts, parsePathGeometry).                            *)
(* A PathPointType is [Anchor, LeftDirection, RightDirection], each a      *)
(* coordinate pair <<x, y>>.                                               *)
(***************************************************************************)
MinOf(S) == CHOOSE m \in S : \A v \in S : m <= v
MaxOf(S) == CHOOSE m \in S : \A v \in S : m >= v

AnchorCoords == { <<0, 0>>, <<10, 0>>, <<0, 10>>, <<10, 10>> }

\* handles: on the anchor (a corner point), or away from it, inside or outside the anchors' extent
LeftDirections(anchor) == { anchor, <<-5, 5>>, <<5, -5>> }
RightDirections(anchor) == { anchor, <<15, 15>>, <<5, 5>> }

PathPointTypes ==
  UNION { { [Anchor |-> a, LeftDirection |-> l, RightDirection |-> r] :
              l \in LeftDirections(a), r \in RightDirections(a) } : a \in AnchorCoords }

PathGeometries ==
  { [PathOpen |-> o, PathPointArray |-> pts] :
      o \in BOOLEAN, pts \in SeqsUpTo(PathPointTypes, MaxPoints) \ {<<>>} }

\* the x values (k = 1) or y values (k = 2) pushed by the forEach over the points
AnchorValues(points, k) == { points[i].Anchor[k] : i \in 1..Len(points) }

\* the command(s) appended to pathData for point i of a sub-path
PointCommands(pt, i, x, y) ==
  LET anchor == <<pt.Anchor[1] - x, pt.Anchor[2] - y>>
      left == <<pt.LeftDirection[1] - x, pt.LeftDirection[2] - y>>
      right == <<pt.RightDirection[1] - x, pt.RightDirection[2] - y>>
      curve == [cmd |-> "C", args |-> <<left, right, anchor>>]
  IN IF i = 1 THEN << [cmd |-> "M", args |-> <<anchor>>], curve >> ELSE << curve >>

RECURSIVE SubPathData(_, _, _, _)
SubPathData(points, i, x, y) ==
  IF i > Len(points) THEN <<>>
  ELSE PointCommands(points[i], i, x, y) \o SubPathData(points, i + 1, x, y)

parsePathGeometry(pg) ==
  LET points == pg.PathPointArray
      xValues == AnchorValues(points, 1)
      yValues == AnchorValues(points, 2)
      x == MinOf(xValues)
      y == MinOf(yValues)
      width == MaxOf(xValues) - x
      height == MaxOf(yValues) - y
  IN [x |-> x, y |-> y, width |-> width, height |-> height,
      centerX |-> <<2 * x + width, 2>>,
      centerY |-> <<2 * y + height, 2>>,
      pathData |-> SubPathData(points, 1, x, y)
                     \o (IF pg.PathOpen THEN <<>> ELSE << [cmd |-> "Z", args |-> <<>>] >>)]

(***************************************************************************)
(* Coordinate placement (utils.ts, getTransformAndShapeProperties).        *)
(***************************************************************************)
RECURSIVE Gcd(_, _)
Gcd(m, n) == IF n = 0 THEN m ELSE Gcd(n, m % n)

\* The angle (atan2(b, a) + 2*PI) % (2*PI) of the vector (a, b), kept as the
\* primitive integer vector of that direction; atan2(0, 0) is 0, the angle of (1, 0).
Angle(a, b) ==
  IF a = 0 /\ b = 0 THEN <<1, 0>>
  ELSE LET g == Gcd(Abs(a), Abs(b)) IN <<a \div g, b \div g>>

\* scaleX and scaleY are square roots; they are kept as their squares.
parseTransformMatrix(transform) ==
  [x |-> transform[5],
   y |-> transform[6],
   rotation |-> Angle(transform[1], transform[2]),
   scaleXSq |-> transform[1] * transform[1] + transform[2] * transform[2],
   scaleYSq |-> transform[3] * transform[3] + transform[4] * transform[4]]

RECURSIVE ancestors(_, _)
\* the while loop over parentElement, from the parent of the element (container i)
\* up to the child of the Spread (container 1)
ancestors(cs, i) ==
  IF i = 0 THEN <<>> ELSE <<cs[i]>> \o ancestors(cs, i - 1)

RECURSIVE allTransformsStopAtMissing(_)
\* the transforms of the ancestors up to the first one without an ItemTransform
allTransformsStopAtMissing(anc) ==
  IF anc = <<>> \/ Head(anc) = None THEN <<>>
  ELSE <<Get(Head(anc))>> \o allTransformsStopAtMissing(Tail(anc))

RECURSIVE allTransforms(_)
\* ancestors.map(getAttribute("ItemTransform")).filter(transform !== null)
allTransforms(anc) ==
  IF anc = <<>> THEN <<>>
  ELSE (IF Head(anc) = None THEN <<>> ELSE <<Get(Head(anc))>>) \o allTransforms(Tail(anc))

combinedTransformMatrix(cs, elementTransform) ==
  multiplyItemTransforms(allTransforms(ancestors(cs, Len(cs))) \o <<elementTransform>>)

\* the position with the GeometricBounds origin taken in the wrong order
elementPositionBoundsSwapped(leftUpperPoint, pageItemTransform, geometricBounds) ==
  <<leftUpperPoint[1] - pageItemTransform[5] - geometricBounds[1],
    leftUpperPoint[2] - pageItemTransform[6] - geometricBounds[2]>>

\* elementX, elementY; GeometricBounds is <<top, left, bottom, right>>
elementPosition(leftUpperPoint, pageItemTransform, geometricBounds) ==
  <<leftUpperPoint[1] - pageItemTransform[5] - geometricBounds[2],
    leftUpperPoint[2] - pageItemTransform[6] - geometricBounds[1]>>

\* width and height are kept as their squares, as the scale factors are
getTransformAndShapeProperties(cs, elementTransform, pg, pageElement) ==
  LET matrix == combinedTransformMatrix(cs, elementTransform)
      elementTransformProps == parseTransformMatrix(matrix)
      shape == parsePathGeometry(pg)
      leftUpperPoint == transformPoint(matrix, <<shape.x, shape.y>>)
      position == elementPosition(leftUpperPoint, pageElement.ItemTransform,
                                  pageElement.GeometricBounds)
  IN [centerX |-> shape.centerX, centerY |-> shape.centerY, pathData |-> shape.pathData,
      rotation |-> elementTransformProps.rotation,
      scaleXSq |-> elementTransformProps.scaleXSq,
      scaleYSq |-> elementTransformProps.scaleYSq,
      widthSq |-> shape.width * shape.width * elementTransformProps.scaleXSq,
      heightSq |-> shape.height * shape.height * elementTransformProps.scaleYSq,
      x |-> position[1],
      y |-> position[2]]

\* ItemTransform of a container between the element and the Spread, if it has one
GroupMatrices == { Identity, <<0, 1, -1, 0, 10, 20>>, <<2, 0, 0, 3, 1, 0>> }
ContainerTransforms == {None} \cup { Some(m) : m \in GroupMatrices }

\* a rectangle with corner points, and a two point curve whose handle leaves the anchors' extent
ElementShapes ==
  { [PathOpen |-> FALSE,
     PathPointArray |->
       << [Anchor |-> <<2, 3>>, LeftDirection |-> <<2, 3>>, RightDirection |-> <<2, 3>>],
          [Anchor |-> <<2, 7>>, LeftDirection |-> <<2, 7>>, RightDirection |-> <<2, 7>>],
          [Anchor |-> <<8, 7>>, LeftDirection |-> <<8, 7>>, RightDirection |-> <<8, 7>>],
          [Anchor |-> <<8, 3>>, LeftDirection |-> <<8, 3>>, RightDirection |-> <<8, 3>>] >>],
    [PathOpen |-> TRUE,
     PathPointArray |->
       << [Anchor |-> <<0, 0>>, LeftDirection |-> <<0, 0>>, RightDirection |-> <<15, 15>>],
          [Anchor |-> <<10, 10>>, LeftDirection |-> <<-5, 5>>, RightDirection |-> <<10, 10>>] >>] }

\* Page elements: ItemTransform is a translation, GeometricBounds is <<top, left, bottom, right>>
Pages ==
  { [ItemTransform |-> t, GeometricBounds |-> b] :
      t \in { Identity, <<1, 0, 0, 1, -75, -36>> },
      b \in { <<0, 0, 146, 200>>, <<-36, -25, 110, 175>> } }

(***************************************************************************)
(* Fractions <<num, den>> with den > 0, kept in lowest terms.              *)
(***************************************************************************)
Frac(n, d) ==
  LET g == Gcd(Abs(n), d) IN <<n \div g, d \div g>>
FAdd(p, q) == Frac(p[1] * q[2] + q[1] * p[2], p[2] * q[2])
FSub(p, q) == Frac(p[1] * q[2] - q[1] * p[2], p[2] * q[2])
FMul(p, q) == Frac(p[1] * q[1], p[2] * q[2])
FLe(p, q) == p[1] * q[2] <= q[1] * p[2]
FLt(p, q) == p[1] * q[2] < q[1] * p[2]
FMin(p, q) == IF FLe(p, q) THEN p ELSE q
FZero == Frac(0, 1)
FOne == Frac(1, 1)
FHalf == Frac(1, 2)

(***************************************************************************)
(* Colours (utils.ts, extractColors and CMYKtoRGBA).                       *)
(***************************************************************************)
\* a colour channel computed from c and k with the black component not added
ChannelWithoutBlack(c, k) == FSub(FOne, FMin(FOne, FMul(c, FSub(FOne, k))))

\* new_color = 1 - min(1, input_color * (1 - K) + K)
Channel(c, k) == FSub(FOne, FMin(FOne, FAdd(FMul(c, FSub(FOne, k)), k)))

CMYKtoRGBA(CMYK) ==
  LET c == Frac(CMYK.c, 100)
      m == Frac(CMYK.m, 100)
      y == Frac(CMYK.y, 100)
      k == Frac(CMYK.k, 100)
  IN [r |-> Channel(c, k), g |-> Channel(m, k), b |-> Channel(y, k), a |-> FOne]

\* the map callback of extractColors: the RGBA colour of one Color element
extractColor(tag) ==
  IF tag.Space = "CMYK"
  THEN CMYKtoRGBA([c |-> tag.ColorValue[1], m |-> tag.ColorValue[2],
                   y |-> tag.ColorValue[3], k |-> tag.ColorValue[4], tint |-> 1])
  ELSE IF tag.Space = "RGB"
  THEN [r |-> Frac(tag.ColorValue[1], 255), g |-> Frac(tag.ColorValue[2], 255),
        b |-> Frac(tag.ColorValue[3], 255), a |-> FOne]
  ELSE [r |-> FZero, g |-> FZero, b |-> FZero, a |-> FOne]

Percentages == {0, 1, 10, 25, 50, 75, 90, 99, 100}
Bytes == {0, 128, 255}

ColorTags ==
  { [Space |-> "CMYK", ColorValue |-> <<c, m, y, k>>] :
      c \in Percentages, m \in Percentages, y \in Percentages, k \in Percentages }
  \cup { [Space |-> sp, ColorValue |-> <<r, g, b>>] :
           sp \in {"RGB", "LAB"}, r \in Bytes, g \in Bytes, b \in Bytes }

(***************************************************************************)
(* Gradient control points (utils.ts, angleToGradientControlPoints).       *)
(* Angles are multiples of 45 degrees, where cos and sin are exact.  A     *)
(* vector is kept up to a positive common factor, which                    *)
(* scaleAndTranslateToUnitRect divides out (value / longSide).             *)
(***************************************************************************)
\* (cos, sin) of an angle in degrees, times a positive factor
Direction(degrees) ==
  LET d == degrees % 360
  IN CASE d = 0 -> <<1, 0>>
       [] d = 45 -> <<1, 1>>
       [] d = 90 -> <<0, 1>>
       [] d = 135 -> <<-1, 1>>
       [] d = 180 -> <<-1, 0>>
       [] d = 225 -> <<-1, -1>>
       [] d = 270 -> <<0, -1>>
       [] d = 315 -> <<1, -1>>

scaleAndTranslateToUnitRect(value) ==
  LET longSide == Max2(Abs(value[1]), Abs(value[2]))
  IN IF longSide = 0 THEN [x |-> FHalf, y |-> FHalf]
     ELSE [x |-> FAdd(FMul(Frac(value[1], longSide), FHalf), FHalf),
           y |-> FAdd(FMul(Frac(value[2], longSide), FHalf), FHalf)]

\* aspectRatio is width / height, given as <<width, height>>; the vector
\* (cos / aspectRatio, sin) * sqrtOfTwo is kept as (cos * height, sin * width)
angleToGradientControlPoints(angleInDegrees, aspectRatio) ==
  LET rad == angleInDegrees + 90
      startDir == Direction(rad + 180)
      endDir == Direction(rad)
      start == <<startDir[1] * aspectRatio[2], startDir[2] * aspectRatio[1]>>
      end == <<endDir[1] * aspectRatio[2], endDir[2] * aspectRatio[1]>>
  IN [start |-> scaleAndTranslateToUnitRect(start),
      end |-> scaleAndTranslateToUnitRect(end)]

GradientAngles == { 45 * i : i \in -4..8 }
AspectRatios == { <<w, h>> : w \in 1..MaxSide, h \in 1..MaxSide }

(***************************************************************************)
(* Text frame ordering (orderTextFrames).                                  *)
(* A TextFrame is [Self, PreviousTextFrame, NextTextFrame]; "n" marks the  *)
(* end of a chain.                                                         *)
(***************************************************************************)
FrameIds == {"a", "b", "c"}
Links == FrameIds \cup {"n"}

\* the Self ids of the frames of one story: distinct, in any order
IdOrders ==
  { o \in SeqsUpTo(FrameIds, Cardinality(FrameIds)) :
      \A i, j \in 1..Len(o) : i # j => o[i] # o[j] }

\* the frames with Self ids o, PreviousTextFrame values pv and NextTextFrame values nx
FrameList(o, pv, nx) ==
  [i \in 1..Len(o) |->
     [Self |-> o[i], PreviousTextFrame |-> pv[i], NextTextFrame |-> nx[i]]]

\* frameMap.get(id): the Map constructor keeps the last entry of a key
frameMapGet(frames, id) ==
  LET hits == { i \in 1..Len(frames) : frames[i].Self = id }
  IN IF hits = {} THEN None ELSE Some(frames[MaxOf(hits)])

\* the walk started at the first frame of the input instead of the chain head
findFirstFrame(frames) ==
  IF frames = <<>> THEN None ELSE Some(frames[1])

\* textFrames.find(tf => PreviousTextFrame === "n")
findHead(frames) ==
  LET hits == { i \in 1..Len(frames) : frames[i].PreviousTextFrame = "n" }
  IN IF hits = {} THEN None ELSE Some(frames[MinOf(hits)])

NullResult == [isNull |-> TRUE, frames |-> <<>>]

(***************************************************************************)
(* Text split (calculateSplitIndices).                                     *)
(* A text is a sequence of characters: "CR", "LF", "LS" (U+2028) and "x"   *)
(* for any other character.  Indices count from 0 as in the code: the      *)
(* character at index idx is text[idx + 1].                                *)
(***************************************************************************)
LineBreaks == {"CR", "LF", "LS"}
Chars == LineBreaks \cup {"x"}

\* lengths of the texts that are longer than one search window
LongLengths == {45, 48}

\* a text of len characters, all "x" but b1 at index p1 and b2 at index p2
LongText(len, p1, b1, p2, b2) ==
  [k \in 1..len |-> IF k = p1 + 1 THEN b1 ELSE IF k = p2 + 1 THEN b2 ELSE "x"]

\* Math.round of the fraction p / q, p >= 0 and q > 0: halves round up
Round(p, q) == (2 * p + q) \div (2 * q)

\* fullText.substring(a, b): swaps its arguments when a > b
substring(text, a, b) == SubSeq(text, Min2(a, b) + 1, Max2(a, b))

\* indices of fullText.matchAll(/\r\n|\r|\n| /g): a LF right after a CR
\* belongs to the match that starts at the CR
nlIndices(text) ==
  { idx \in 0..(Len(text) - 1) :
      /\ text[idx + 1] \in LineBreaks
      /\ ~ (text[idx + 1] = "LF" /\ idx >= 1 /\ text[idx] = "CR") }

\* length of the match of /^(\r\n|\r|\n| )/ at idx, 1 when there is none
nlMatchLength(text, idx) ==
  IF text[idx + 1] = "CR" /\ idx + 2 <= Len(text) /\ text[idx + 2] = "LF" THEN 2 ELSE 1

\* Math.round((i + 1) * idealChars), idealChars = textLen / numFrames
target(textLen, frames, i) == Round((i + 1) * textLen, frames)

\* Math.max(Math.round(idealChars * 0.2), 20)
winRadius(textLen, frames) == Max2(Round(textLen, 5 * frames), 20)

\* the search window closed at its upper end
nlsClosedWindow(text, lastSplit, t, r) ==
  { idx \in nlIndices(text) :
      /\ idx >= Max2(lastSplit, t - r)
      /\ idx <= Min2(Len(text), t + r)
      /\ idx > lastSplit }

\* the line breaks inside the search window
nls(text, lastSplit, t, r) ==
  { idx \in nlIndices(text) :
      /\ idx >= Max2(lastSplit, t - r)
      /\ idx < Min2(Len(text), t + r)
      /\ idx > lastSplit }

\* nls.sort(by distance to target)[0]; the sort is stable, so of two breaks
\* at the same distance the one with the lower index comes first
closest(S, t) ==
  CHOOSE a \in S :
    \A b \in S : Abs(a - t) < Abs(b - t) \/ (Abs(a - t) = Abs(b - t) /\ a <= b)

\* the split kept below the text length only
clampSplitUpperOnly(bestSplit, lastSplit, textLen) == Min2(textLen, bestSplit)

\* Math.min(textLen, Math.max(lastSplit, bestSplit))
clampSplit(bestSplit, lastSplit, textLen) == Min2(textLen, Max2(lastSplit, bestSplit))

\* the body of the loop for split i: the split after the closest break of
\* the window, the target when the window holds none
bestSplit(text, frames, i, lastSplit) ==
  LET t == target(Len(text), frames, i)
      found == nls(text, lastSplit, t, winRadius(Len(text), frames))
      best == IF found # {}
              THEN closest(found, t) + nlMatchLength(text, closest(found, t))
              ELSE t
  IN clampSplit(best, lastSplit, Len(text))

\* for (let i = 0; i < numFrames - 1; i++)
RECURSIVE splitLoop(_, _, _, _, _)
splitLoop(text, frames, i, lastSplit, splits) ==
  IF i < frames - 1
  THEN LET b == bestSplit(text, frames, i, lastSplit)
       IN splitLoop(text, frames, i + 1, b, Append(splits, b))
  ELSE splits

\* no splits for a text that has fewer characters than frames
returnsNoSplitsShortText(textLen, frames) == frames <= 1 \/ textLen < frames

\* if (numFrames <= 1 || textLen === 0) return []
returnsNoSplits(textLen, frames) == frames <= 1 \/ textLen = 0

calculateSplitIndices(text, frames) ==
  IF returnsNoSplits(Len(text), frames)
  THEN <<>>
  ELSE splitLoop(text, frames, 0, 0, <<>>)

(***************************************************************************)
(* Frame contents (updateFrameContents).  The frames are given by their    *)
(* blocks 1, 2, ... in chain order.  An index is optional: None is the     *)
(* undefined that reading past the end of splitIndices gives.              *)
(***************************************************************************)
framesWithBlocks(frames) == [j \in 1..frames |-> j]

\* idx === framesWithBlocks.length - 1 ? fullText.length : splitIndices[idx]
endIdx(blocks, text, splits, idx) ==
  IF idx = Len(blocks) - 1
  THEN Some(Len(text))
  ELSE IF idx + 1 <= Len(splits) THEN Some(splits[idx + 1]) ELSE None

\* the callback without its try: the exception of updateString leaves it
updateFrameUncaught(block, st, end, throws) ==
  [startIdx |-> IF throws THEN st.startIdx ELSE end,
   calls |-> Append(st.calls,
                    [block |-> block, startIdx |-> st.startIdx, endIdx |-> end, threw |-> throws]),
   errors |-> st.errors,
   outcome |-> IF throws THEN "threw" ELSE st.outcome]

\* the callback of forEach for one frame: updateString is called with the
\* range, its exception is caught and logged, and startIdx moves on
updateFrame(block, st, end, throws) ==
  [startIdx |-> end,
   calls |-> Append(st.calls,
                    [block |-> block, startIdx |-> st.startIdx, endIdx |-> end, threw |-> throws]),
   errors |-> IF throws THEN Append(st.errors, block) ELSE st.errors,
   outcome |-> st.outcome]

\* framesWithBlocks.forEach: an exception that leaves the callback ends it
RECURSIVE forEachFrame(_, _, _, _, _, _)
forEachFrame(blocks, text, splits, fails, idx, st) ==
  IF idx >= Len(blocks) \/ st.outcome = "threw"
  THEN st
  ELSE forEachFrame(blocks, text, splits, fails, idx + 1,
                    updateFrame(blocks[idx + 1], st, endIdx(blocks, text, splits, idx),
                                idx \in fails))

\* fails: the indices of the frames for which updateString throws
updateFrameContents(blocks, text, splits, fails) ==
  LET st == forEachFrame(blocks, text, splits, fails, 0,
                         [startIdx |-> Some(0), calls |-> <<>>, errors |-> <<>>,
                          outcome |-> "running"])
  IN [st EXCEPT !.outcome = IF @ = "running" THEN "returned" ELSE @]

(***************************************************************************)
(* The parser (index.ts, IDMLParser).                                      *)
(* A spread is [page, elements]: the optional first Page element, given by *)
(* its GeometricBounds <<top, left, bottom, right>>, and the children of   *)
(* the Spread element that are page items.                                 *)
(***************************************************************************)
POINT_TO_INCH == 72

\* Resources/Graphic.xml of the document
GraphicColors ==
  << [Self |-> "Color/Black", Space |-> "CMYK", ColorValue |-> <<0, 0, 0, 100>>],
     [Self |-> "Color/Red", Space |-> "RGB", ColorValue |-> <<255, 0, 0>>] >>

GraphicGradients ==
  << [Self |-> "Gradient/g1", Type |-> "Linear",
      GradientStops |-> << [StopColor |-> "Color/Black", Location |-> Some(<<0>>)],
                           [StopColor |-> "Color/Red", Location |-> None] >>] >>

\* new Map(entries): the value of the last entry with key id, None without one
MapGet(entries, id) ==
  LET hits == { i \in 1..Len(entries) : entries[i][1] = id }
  IN IF hits = {} THEN None ELSE Some(entries[MaxOf(hits)][2])

extractColors(colorTags) ==
  [i \in 1..Len(colorTags) |-> << colorTags[i].Self, extractColor(colorTags[i]) >>]

getGradientStopColor(gradientStop, colorMap) ==
  LET colorValue == MapGet(colorMap, gradientStop.StopColor)
  IN IF colorValue # None
     THEN Get(colorValue)
     ELSE [r |-> FZero, g |-> FZero, b |-> FZero, a |-> FOne]

\* the result of 0 / 0
NaN == <<0, 0>>

\* an attribute is None when absent, else the numbers of its text: <<>> for ""
Truthy(attribute) == attribute # None /\ Get(attribute) # <<>>

\* locationAttribute ? parseFloat(locationAttribute) / 100 : index / (count - 1)
stopLocation(locationAttribute, index, count) ==
  IF Truthy(locationAttribute)
  THEN Frac(Get(locationAttribute)[1], 100)
  ELSE IF count - 1 = 0 THEN NaN ELSE Frac(index, count - 1)

\* the GradientStop elements of the model
StopLocations == {None, Some(<<>>)} \cup { Some(<<p>>) : p \in {0, 50, 100} }
GradientStopTags ==
  { [StopColor |-> c, Location |-> l] : c \in {"Color/Black", "Color/Unknown"}, l \in StopLocations }
GradientTags ==
  { [Self |-> "Gradient/g1", Type |-> t, GradientStops |-> stops] :
      t \in {"Linear", "Radial"}, stops \in SeqsUpTo(GradientStopTags, MaxStops) }

extractGradients(gradientTags, colorMap) ==
  [i \in 1..Len(gradientTags) |->
     LET stops == gradientTags[i].GradientStops
     IN << gradientTags[i].Self,
           [type |-> gradientTags[i].Type,
            stops |-> [k \in 1..Len(stops) |->
                         [color |-> getGradientStopColor(stops[k], colorMap),
                          stop |-> stopLocation(stops[k].Location, k - 1, Len(stops))]]] >>]

\* the page items of the model: a filled rectangle, a rectangle with a gradient,
\* a rectangle with an embedded image, one without ItemTransform, one whose
\* AppliedObjectStyle is not in Styles.xml, a hidden one
PageItems ==
  { [Visible |-> TRUE, ItemTransform |-> TRUE, ObjectStyle |-> TRUE, Image |-> "none",
     FillColor |-> "Color/Black", StrokeColor |-> "Color/Red"],
    [Visible |-> TRUE, ItemTransform |-> TRUE, ObjectStyle |-> TRUE, Image |-> "none",
     FillColor |-> "Gradient/g1", StrokeColor |-> "Swatch/None"],
    [Visible |-> TRUE, ItemTransform |-> TRUE, ObjectStyle |-> TRUE, Image |-> "Embedded",
     FillColor |-> "Swatch/None", StrokeColor |-> "Color/Black"],
    [Visible |-> TRUE, ItemTransform |-> FALSE, ObjectStyle |-> TRUE, Image |-> "none",
     FillColor |-> "Color/Black", StrokeColor |-> "Color/Red"],
    [Visible |-> TRUE, ItemTransform |-> TRUE, ObjectStyle |-> FALSE, Image |-> "none",
     FillColor |-> "Color/Black", StrokeColor |-> "Color/Red"],
    [Visible |-> FALSE, ItemTransform |-> TRUE, ObjectStyle |-> TRUE, Image |-> "none",
     FillColor |-> "Color/Black", StrokeColor |-> "Color/Red"] }

PageBounds == { <<0, 0, 792, 612>>, <<0, 0, 612, 792>> }
PageTags == {None} \cup { Some(b) : b \in PageBounds }

getPageAttributes(bounds) ==
  [width |-> bounds[4] - bounds[2], height |-> bounds[3] - bounds[1]]

\* getImageURI and extractEmbeddedImage: the data URI of the embedded image
getImageURI(element) ==
  IF element.Image = "Embedded"
  THEN Some([scheme |-> "data", type |-> "image/png", encoding |-> "base64"])
  ELSE None

\* applyImageFill: the image fill is set whether or not the image could be loaded
applyImageFill(block, element, loaded) ==
  LET imageURI == getImageURI(element)
  IN IF imageURI = None
     THEN [block |-> block, log |-> <<>>]
     ELSE [block |-> [block EXCEPT !.kind = "image",
                                   !.fill = Some([type |-> "image", uri |-> Get(imageURI)])],
           log |-> IF loaded THEN <<>> ELSE << "Could not load image from URI" >>]

\* applyStroke: the stroke colour looked up in this.colors
applyStroke(block, element, colorMap) ==
  IF MapGet(colorMap, element.StrokeColor) # None
  THEN [block EXCEPT !.stroke = MapGet(colorMap, element.StrokeColor)]
  ELSE block

\* applyFill on the block and the logger: a colour fill, a gradient fill, or
\* an error for an id that is in neither map
fillBlock(block, element, colorMap, gradientMap) ==
  LET fillColor == element.FillColor
      same == [block |-> block, log |-> <<>>]
  IN IF MapGet(colorMap, fillColor) # None
     THEN [same EXCEPT !.block.fill =
             Some([type |-> "color", value |-> Get(MapGet(colorMap, fillColor))])]
     ELSE IF MapGet(gradientMap, fillColor) # None
     THEN [same EXCEPT !.block.fill =
             Some([type |-> Get(MapGet(gradientMap, fillColor)).type,
                   stops |-> Get(MapGet(gradientMap, fillColor)).stops])]
     ELSE IF fillColor # "Swatch/None"
     THEN [same EXCEPT !.log = << "Fill color not found in document colors." >>]
     ELSE same

\* the stops of the applied gradient reversed in place (gradient.stops.reverse())
applyFillReversingStops(block, element, colorMap, gradientMap) ==
  LET Reverse(q) == [k \in 1..Len(q) |-> q[Len(q) + 1 - k]]
      filled == fillBlock(block, element, colorMap, gradientMap)
  IN [block |-> filled.block, log |-> filled.log, colors |-> colorMap,
      gradients |-> [i \in 1..Len(gradientMap) |->
                       IF gradientMap[i][1] = element.FillColor
                            /\ MapGet(colorMap, element.FillColor) = None
                       THEN << gradientMap[i][1],
                               [gradientMap[i][2] EXCEPT !.stops = Reverse(@)] >>
                       ELSE gradientMap[i]]]

\* applyFill: this.colors and this.gradients are only read (has, get)
applyFill(block, element, colorMap, gradientMap) ==
  LET filled == fillBlock(block, element, colorMap, gradientMap)
  IN [block |-> filled.block, log |-> filled.log,
      colors |-> colorMap, gradients |-> gradientMap]

(***************************************************************************)
(* Page elements (renderPageElements).  A page item is identified by its   *)
(* path: <<e>> for child e of the spread, <<e, c>> for child c of the      *)
(* Group e.  Every item of the model has an ItemTransform and an object    *)
(* style that exists, and every Group has a visible child.  A block is     *)
(* [element, role, kind, fill, stroke, children]; the children of a block  *)
(* are listed back to front.                                               *)
(***************************************************************************)
RenderColors == extractColors(GraphicColors)
RenderGradients == extractGradients(GraphicGradients, RenderColors)

\* FillColor "" stands for a missing attribute
SimpleItems ==
  { [Tag |-> "Rectangle", Visible |-> TRUE, Image |-> "none", FillColor |-> "Color/Black",
     StrokeColor |-> "Color/Red", Children |-> <<>>],
    [Tag |-> "Rectangle", Visible |-> TRUE, Image |-> "Embedded", FillColor |-> "Swatch/None",
     StrokeColor |-> "Color/Black", Children |-> <<>>],
    [Tag |-> "Rectangle", Visible |-> FALSE, Image |-> "none", FillColor |-> "Color/Black",
     StrokeColor |-> "Color/Red", Children |-> <<>>],
    [Tag |-> "TextFrame", Visible |-> TRUE, Image |-> "none", FillColor |-> "Color/Red",
     StrokeColor |-> "Swatch/None", Children |-> <<>>],
    [Tag |-> "TextFrame", Visible |-> TRUE, Image |-> "none", FillColor |-> "",
     StrokeColor |-> "Swatch/None", Children |-> <<>>] }

GroupItems ==
  { [Tag |-> "Group", Visible |-> TRUE, Image |-> "none", FillColor |-> "",
     StrokeColor |-> "", Children |-> cs] :
      cs \in { << a, b >> : a \in { i \in SimpleItems : i.Image = "Embedded" },
                             b \in { i \in SimpleItems : i.Tag = "TextFrame" /\ i.FillColor # "" } } }

RenderItems == SimpleItems \cup GroupItems

newBlock(path, role, kind) ==
  [element |-> path, role |-> role, kind |-> kind, fill |-> None, stroke |-> None,
   children |-> <<>>]

sameBlock(a, b) == a.element = b.element /\ a.role = b.role

removeBlock(children, block) == SelectSeq(children, LAMBDA c : ~ sameBlock(c, block))

\* engine.block.appendChild: the block becomes the last child of the parent
appendChild(children, block) == Append(removeBlock(children, block), block)

\* engine.block.insertChild: the block becomes the child at index (from 0)
insertChild(children, block, index) ==
  LET rest == removeBlock(children, block)
      at == Min2(index, Len(rest))
  IN SubSeq(rest, 1, at) \o << block >> \o SubSeq(rest, at + 1, Len(rest))

\* for (index ...) insertChild(parent, flatBlocks[index], index)
RECURSIVE reorderBlocks(_, _, _)
reorderBlocks(children, flatBlocks, index) ==
  IF index >= Len(flatBlocks) THEN children
  ELSE reorderBlocks(insertChild(children, flatBlocks[index + 1], index), flatBlocks, index + 1)

\* the children left in the order the callbacks appended them
reorderPageSkipped(children, flatBlocks) == children

\* the loop at the end of renderPageElements
reorderPage(children, flatBlocks) == reorderBlocks(children, flatBlocks, 0)

\* blocks.flat() of the values the callbacks returned
RECURSIVE flat(_)
flat(tasks) == IF tasks = <<>> THEN <<>> ELSE Head(tasks).blocks \o flat(Tail(tasks))

\* a callback up to its first await: applyImageFill for a Rectangle, the font
\* resolver for a TextFrame, the nested renderPageElements for a Group
startTask(element) ==
  [status |-> IF ~ element.Visible THEN "fulfilled"
              ELSE IF element.Tag = "Rectangle" THEN "image"
              ELSE IF element.Tag = "TextFrame" THEN "font"
              ELSE "nested",
   blocks |-> <<>>]

\* the Rectangle case after applyImageFill: stroke, appendChild, fill
renderRectangle(path, element, loaded, children) ==
  LET imaged == applyImageFill(newBlock(path, "item", "shape"), element, loaded)
      stroked == applyStroke(imaged.block, element, RenderColors)
      filled == IF stroked.kind = "shape"
                THEN applyFill(stroked, element, RenderColors, RenderGradients)
                ELSE [block |-> stroked, log |-> <<>>]
  IN [blocks |-> << filled.block >>,
      page |-> appendChild(children, filled.block),
      log |-> imaged.log \o filled.log]

\* the TextFrame case after the text runs settled: the text block is
\* appended, then the background of a frame with FillColor, then the text
\* block again; the text block is returned first
renderTextFrame(path, element, children) ==
  LET block == newBlock(path, "item", "text")
      background == applyFill(newBlock(path, "background", "shape"), element,
                              RenderColors, RenderGradients)
  IN IF element.FillColor # ""
     THEN [blocks |-> << block, background.block >>,
           page |-> appendChild(appendChild(appendChild(children, block), background.block),
                                block),
           log |-> background.log]
     ELSE [blocks |-> << block >>,
           page |-> appendChild(appendChild(children, block), block),
           log |-> <<>>]

RECURSIVE removeBlocks(_, _)
removeBlocks(children, blocks) ==
  IF blocks = <<>> THEN children
  ELSE removeBlocks(removeBlock(children, Head(blocks)), Tail(blocks))

\* the Group case after its nested renderPageElements: the nested call put
\* the children in order on the page, engine.block.group moves them into a
\* new group block on the page, insertChild orders them inside the group
renderGroup(path, nested, children) ==
  LET grouped == [newBlock(path, "item", "group") EXCEPT
                    !.children = reorderBlocks(nested, nested, 0)]
  IN [blocks |-> << grouped >>,
      page |-> Append(removeBlocks(reorderPage(children, nested), nested), grouped),
      log |-> <<>>]
(***************************************************************************)
(* Special characters (replaceSpecialCharacters).  A string is the         *)
(* sequence of its characters.                                             *)
(***************************************************************************)
\* the characters of the texts of the model
ContentChars == {"&", "<", ">", "\"", "'", "l", "t", ";", "x"}

\* the five predefined entities of XML
Entities ==
  << [entity |-> <<"&", "a", "m", "p", ";">>, char |-> "&"],
     [entity |-> <<"&", "l", "t", ";">>, char |-> "<"],
     [entity |-> <<"&", "g", "t", ";">>, char |-> ">"],
     [entity |-> <<"&", "q", "u", "o", "t", ";">>, char |-> "\""],
     [entity |-> <<"&", "a", "p", "o", "s", ";">>, char |-> "'"] >>

\* the serialisation of a text: each of the five characters as its entity
RECURSIVE escape(_)
escape(text) ==
  IF text = <<>> THEN <<>>
  ELSE LET hits == { k \in 1..Len(Entities) : Entities[k].char = Head(text) }
       IN (IF hits = {} THEN << Head(text) >> ELSE Entities[CHOOSE k \in hits : TRUE].entity)
            \o escape(Tail(text))

\* input.replace(/pattern/g, replacement): the matches from left to right
RECURSIVE replace(_, _, _)
replace(input, pattern, replacement) ==
  IF Len(input) < Len(pattern) THEN input
  ELSE IF SubSeq(input, 1, Len(pattern)) = pattern
  THEN replacement \o replace(SubSeq(input, Len(pattern) + 1, Len(input)), pattern, replacement)
  ELSE << Head(input) >> \o replace(Tail(input), pattern, replacement)

\* the five replacements chained in the order of the code, &amp; first
RECURSIVE replaceFrom(_, _)
replaceFrom(input, k) ==
  IF k > Len(Entities) THEN input
  ELSE replaceFrom(replace(input, Entities[k].entity, << Entities[k].char >>), k + 1)

replaceSpecialCharacters(input) == replaceFrom(input, 1)
(***************************************************************************)
(* Google Fonts (addGoogleFontsAssetLibrary, fontResolver).  An asset is   *)
(* given by the family of its typeface.                                    *)
(***************************************************************************)
typefaceLibrary == "ly.img.google-fonts"

FontAssets == {"Roboto", "Tinos"}

\* contents of content.json: lists of different assets
ContentLists ==
  { <<>> } \cup { << a >> : a \in FontAssets }
           \cup { q \in { << a, b >> : a \in FontAssets, b \in FontAssets } : q[1] # q[2] }

\* the families asked for; TYPEFACE_ALIAS_MAP replaces Helvetica by Roboto
FontFamilies == {"Helvetica", "Tinos", "Papyrus"}
TYPEFACE_ALIAS_MAP(family) == IF family = "Helvetica" THEN "Roboto" ELSE family

\* fontResolver for a font without style: an error without the library, null
\* when findAssets finds no asset of the family, else its typeface
fontResolver(family, sources, assets) ==
  IF typefaceLibrary \notin sources
  THEN "threw"
  ELSE IF \E k \in 1..Len(assets) : assets[k] = TYPEFACE_ALIAS_MAP(family)
  THEN "found"
  ELSE "null"
(***************************************************************************)
(* Idle values of the variables a specification does not use.              *)
(***************************************************************************)
TransformIdle ==
  /\ transforms = <<>> /\ combined = None /\ point = None /\ mapped = None
PathIdle ==
  /\ pathGeometry = [PathOpen |-> FALSE, PathPointArray |-> <<>>] /\ shapeGeometry = None
PlacementIdle ==
  /\ containers = <<>> /\ elementItemTransform = Identity
  /\ page = [ItemTransform |-> Identity, GeometricBounds |-> <<0, 0, 0, 0>>]
  /\ placement = None
ColorIdle ==
  /\ colorTag = [Space |-> "", ColorValue |-> <<>>] /\ rgba = None /\ colorLog = <<>>
GradientIdle ==
  /\ gradientAngle = 0 /\ gradientAspect = <<1, 1>> /\ controlPoints = None
FrameIdle ==
  /\ textFrames = <<>> /\ pc = "idle" /\ currentFrame = None /\ ordered = <<>>
  /\ visited = {} /\ orderResult = None /\ warnings = <<>>
SplitIdle ==
  /\ fullText = <<>> /\ numFrames = 0 /\ splitIndices = None
ParseIdle ==
  /\ idml = [spreads |-> <<>>] /\ parser = "none" /\ colors = None /\ gradients = None
  /\ scene = None /\ parseState = "idle" /\ parseCalls = 0 /\ logger = <<>>
  /\ stack = <<>> /\ spreadTask = <<>> /\ elementTask = <<>>
FontIdle ==
  /\ assetSources = {} /\ sourceAssets = <<>> /\ contentAssets = <<>> /\ fontCall = <<>>
  /\ typefaceResult = None
EntityIdle ==
  /\ contentText = <<>> /\ innerHTML = <<>> /\ rangeContent = None
RenderIdle ==
  /\ renderChildren = <<>> /\ renderTask = <<>> /\ nestedTask = <<>> /\ pageChildren = <<>>
  /\ renderState = "none" /\ completionOrder = <<>> /\ renderLog = <<>>
UpdateIdle ==
  /\ updateCalls = <<>> /\ consoleErrors = <<>> /\ updateOutcome = "none"
StopIdle ==
  /\ gradientTag = [Self |-> "", Type |-> "", GradientStops |-> <<>>] /\ gradientEntry = None

(***************************************************************************)
(* Specification of the transform algebra.                                 *)
(***************************************************************************)
TransformInit ==
  /\ transforms \in SeqsUpTo(Matrices, MaxChain)
  /\ combined = None /\ point = None /\ mapped = None
  /\ PathIdle /\ PlacementIdle /\ ColorIdle /\ GradientIdle /\ FrameIdle /\ SplitIdle /\ ParseIdle /\ StopIdle /\ UpdateIdle /\ RenderIdle /\ EntityIdle /\ FontIdle

\* const combined = multiplyItemTransforms(transforms)
Compose ==
  /\ combined = None
  /\ combined' = Some(multiplyItemTransforms(transforms))
  /\ UNCHANGED <<transforms, point, mapped>>
  /\ UNCHANGED <<pathVars, placementVars, colorVars, gradientVars, frameVars, splitVars, parseVars, stopVars, updateVars, renderVars, entityVars, fontVars>>

\* transformPoint(combined, x, y)
ApplyToPoint ==
  /\ combined # None /\ point = None
  /\ \E p \in Points :
       /\ point' = Some(p)
       /\ mapped' = Some(transformPoint(Get(combined), p))
  /\ UNCHANGED <<transforms, combined>>
  /\ UNCHANGED <<pathVars, placementVars, colorVars, gradientVars, frameVars, splitVars, parseVars, stopVars, updateVars, renderVars, entityVars, fontVars>>

TransformNext == Compose \/ ApplyToPoint

SpecTransforms == TransformInit /\ [][TransformNext]_vars

(***************************************************************************)
(* Specification of the path geometry reconstruction.                      *)
(***************************************************************************)
PathInit ==
  /\ pathGeometry \in PathGeometries
  /\ shapeGeometry = None
  /\ TransformIdle /\ PlacementIdle /\ ColorIdle /\ GradientIdle /\ FrameIdle /\ SplitIdle /\ ParseIdle /\ StopIdle /\ UpdateIdle /\ RenderIdle /\ EntityIdle /\ FontIdle

\* const shapeGeometry = parsePathGeometry(elementPathGeometry)
ParsePath ==
  /\ shapeGeometry = None
  /\ shapeGeometry' = Some(parsePathGeometry(pathGeometry))
  /\ UNCHANGED <<pathGeometry, transformVars, placementVars, colorVars, gradientVars, frameVars, splitVars, parseVars, stopVars, updateVars, renderVars, entityVars, fontVars>>

PathNext == ParsePath

SpecPath == PathInit /\ [][PathNext]_vars

(***************************************************************************)
(* Specification of the placement of an element on its page.               *)
(***************************************************************************)
PlacementInit ==
  /\ containers \in SeqsUpTo(ContainerTransforms, MaxDepth)
  /\ elementItemTransform \in Matrices
  /\ page \in Pages
  /\ pathGeometry \in ElementShapes
  /\ placement = None /\ shapeGeometry = None
  /\ TransformIdle /\ ColorIdle /\ GradientIdle /\ FrameIdle /\ SplitIdle /\ ParseIdle /\ StopIdle /\ UpdateIdle /\ RenderIdle /\ EntityIdle /\ FontIdle

\* getTransformAndShapeProperties(element, page)
ResolvePlacement ==
  /\ placement = None
  /\ placement' = Some(getTransformAndShapeProperties(containers, elementItemTransform,
                                                      pathGeometry, page))
  /\ shapeGeometry' = Some(parsePathGeometry(pathGeometry))
  /\ UNCHANGED <<containers, elementItemTransform, page, pathGeometry>>
  /\ UNCHANGED <<transformVars, colorVars, gradientVars, frameVars, splitVars, parseVars, stopVars, updateVars, renderVars, entityVars, fontVars>>

PlacementNext == ResolvePlacement

SpecPlacement == PlacementInit /\ [][PlacementNext]_vars

(***************************************************************************)
(* Specification of the colour extraction.                                 *)
(***************************************************************************)
ColorInit ==
  /\ colorTag \in ColorTags
  /\ rgba = None
  /\ colorLog = <<>>
  /\ TransformIdle /\ PathIdle /\ PlacementIdle /\ GradientIdle /\ FrameIdle /\ SplitIdle /\ ParseIdle /\ StopIdle /\ UpdateIdle /\ RenderIdle /\ EntityIdle /\ FontIdle

\* extractColors maps the Color element to its RGBA colour; it has no logger
\* and makes no console call
ExtractColor ==
  /\ rgba = None
  /\ rgba' = Some(extractColor(colorTag))
  /\ UNCHANGED <<colorTag, colorLog, transformVars, pathVars, placementVars, gradientVars, frameVars, splitVars, parseVars, stopVars, updateVars, renderVars, entityVars, fontVars>>

ColorNext == ExtractColor

SpecColors == ColorInit /\ [][ColorNext]_vars

(***************************************************************************)
(* Specification of the gradient control points.                           *)
(***************************************************************************)
GradientInit ==
  /\ gradientAngle \in GradientAngles
  /\ gradientAspect \in AspectRatios
  /\ controlPoints = None
  /\ TransformIdle /\ PathIdle /\ PlacementIdle /\ ColorIdle /\ FrameIdle /\ SplitIdle /\ ParseIdle /\ StopIdle /\ UpdateIdle /\ RenderIdle /\ EntityIdle /\ FontIdle

\* const controlPoints = angleToGradientControlPoints(idmlAngle, blockAspectRatio)
ComputeControlPoints ==
  /\ controlPoints = None
  /\ controlPoints' = Some(angleToGradientControlPoints(gradientAngle, gradientAspect))
  /\ UNCHANGED <<gradientAngle, gradientAspect>>
  /\ UNCHANGED <<transformVars, pathVars, placementVars, colorVars, frameVars, splitVars, parseVars, stopVars, updateVars, renderVars, entityVars, fontVars>>

GradientNext == ComputeControlPoints

SpecGradient == GradientInit /\ [][GradientNext]_vars

(***************************************************************************)
(* Specification of orderTextFrames, one step per loop iteration.          *)
(***************************************************************************)
FrameInit ==
  /\ \E o \in IdOrders :
       \E pv \in [1..Len(o) -> Links], nx \in [1..Len(o) -> Links] :
         textFrames = FrameList(o, pv, nx)
  /\ pc = "start" /\ currentFrame = None /\ ordered = <<>>
  /\ visited = {} /\ orderResult = None /\ warnings = <<>>
  /\ TransformIdle /\ PathIdle /\ PlacementIdle /\ ColorIdle /\ GradientIdle /\ SplitIdle /\ ParseIdle /\ StopIdle /\ UpdateIdle /\ RenderIdle /\ EntityIdle /\ FontIdle

frameRest ==
  <<transformVars, pathVars, placementVars, colorVars, gradientVars, splitVars, parseVars,
    stopVars, updateVars, renderVars, entityVars, fontVars>>

\* find the head; return null when there is none
OrderStart ==
  /\ pc = "start"
  /\ LET head == findHead(textFrames)
     IN IF head = None
        THEN /\ orderResult' = Some(NullResult)
             /\ pc' = "done"
             /\ UNCHANGED currentFrame
        ELSE /\ currentFrame' = head
             /\ pc' = "loop"
             /\ UNCHANGED orderResult
  /\ UNCHANGED <<textFrames, ordered, visited, warnings, frameRest>>

\* the loop check made only after the frame was pushed
LoopStepCheckAfterPush ==
  /\ pc = "loop" /\ currentFrame # None
  /\ LET frame == Get(currentFrame)
         currentId == frame.Self
         nextId == frame.NextTextFrame
     IN /\ ordered' = Append(ordered, frame)
        /\ IF currentId \in visited
           THEN /\ warnings' = Append(warnings, "! Loop detected")
                /\ pc' = "check"
                /\ UNCHANGED <<currentFrame, visited>>
           ELSE /\ visited' = visited \cup {currentId}
                /\ currentFrame' = IF nextId # "" /\ nextId # "n"
                                   THEN frameMapGet(textFrames, nextId)
                                   ELSE None
                /\ UNCHANGED <<pc, warnings>>
  /\ UNCHANGED <<textFrames, orderResult, frameRest>>
\* one iteration of while (currentFrame)
LoopStep ==
  /\ pc = "loop" /\ currentFrame # None
  /\ LET frame == Get(currentFrame)
         currentId == frame.Self
         nextId == frame.NextTextFrame
     IN IF currentId \in visited
        THEN /\ warnings' = Append(warnings, "! Loop detected")
             /\ pc' = "check"
             /\ UNCHANGED <<currentFrame, ordered, visited>>
        ELSE /\ visited' = visited \cup {currentId}
             /\ ordered' = Append(ordered, frame)
             /\ currentFrame' = IF nextId # "" /\ nextId # "n"
                                THEN frameMapGet(textFrames, nextId)
                                ELSE None
             /\ UNCHANGED <<pc, warnings>>
  /\ UNCHANGED <<textFrames, orderResult, frameRest>>

\* the loop condition fails
LoopExit ==
  /\ pc = "loop" /\ currentFrame = None
  /\ pc' = "check"
  /\ UNCHANGED <<textFrames, currentFrame, ordered, visited, orderResult, warnings, frameRest>>

\* the plausibility check and the return
OrderFinish ==
  /\ pc = "check"
  /\ IF Len(ordered) = 0 /\ Len(textFrames) > 0
     THEN /\ orderResult' = Some(NullResult)
          /\ UNCHANGED warnings
     ELSE /\ orderResult' = Some([isNull |-> FALSE, frames |-> ordered])
          /\ warnings' = IF Len(ordered) # Len(textFrames)
                         THEN Append(warnings, "! Frame order mismatch")
                         ELSE warnings
  /\ pc' = "done"
  /\ UNCHANGED <<textFrames, currentFrame, ordered, visited, frameRest>>

FrameNext == OrderStart \/ LoopStep \/ LoopExit \/ OrderFinish

SpecFrames == FrameInit /\ [][FrameNext]_vars

\* the walk is one synchronous call: once started it runs on until it returns
SpecFramesFair == SpecFrames /\ WF_vars(FrameNext)

(***************************************************************************)
(* Specification of the text split.                                        *)
(***************************************************************************)
SplitInit ==
  /\ \/ fullText \in SeqsUpTo(Chars, MaxShortText)
     \/ \E len \in LongLengths :
          \E p1 \in 0..(len - 1), p2 \in 0..(len - 1), b1 \in Chars, b2 \in Chars :
            fullText = LongText(len, p1, b1, p2, b2)
  /\ numFrames \in 0..MaxFrameCount
  /\ splitIndices = None
  /\ TransformIdle /\ PathIdle /\ PlacementIdle /\ ColorIdle /\ GradientIdle /\ FrameIdle /\ ParseIdle /\ StopIdle /\ UpdateIdle /\ RenderIdle /\ EntityIdle /\ FontIdle

\* one call of calculateSplitIndices
CalculateSplits ==
  /\ splitIndices = None
  /\ splitIndices' = Some(calculateSplitIndices(fullText, numFrames))
  /\ UNCHANGED <<fullText, numFrames, transformVars, pathVars, placementVars, colorVars, gradientVars, frameVars, parseVars, stopVars, updateVars, renderVars, entityVars, fontVars>>

\* updateFrameContents with the splits calculated for as many frames
UpdateFrameContents ==
  /\ splitIndices # None
  /\ updateOutcome = "none"
  /\ \E fails \in SUBSET (0..(numFrames - 1)) :
       LET done == updateFrameContents(framesWithBlocks(numFrames), fullText,
                                       Get(splitIndices), fails)
       IN /\ updateCalls' = done.calls
          /\ consoleErrors' = done.errors
          /\ updateOutcome' = done.outcome
  /\ UNCHANGED <<splitVars, transformVars, pathVars, placementVars, colorVars, gradientVars,
                 frameVars, parseVars, stopVars, renderVars, entityVars, fontVars>>

SplitNext == CalculateSplits \/ UpdateFrameContents

SpecSplit == SplitInit /\ [][SplitNext]_vars
(***************************************************************************)
(* Specification of the parser: the constructor, then parse() calls.  An   *)
(* async callback runs until its first await in the step that starts it;   *)
(* what follows the await is a step of its own, and the steps of different *)
(* callbacks interleave.  parse() is called again only when no callback of *)
(* the previous call is still waiting.                                     *)
(***************************************************************************)
ItemLists == SeqsUpTo(PageItems, MaxElements)

ParseInit ==
  /\ \/ \E p1 \in PageTags, e1 \in ItemLists :
          idml = [spreads |-> << [page |-> p1, elements |-> e1] >>]
     \/ \E p1 \in PageTags, p2 \in PageTags, e1 \in ItemLists, e2 \in ItemLists :
          /\ Len(e1) + Len(e2) <= MaxElements
          /\ idml = [spreads |-> << [page |-> p1, elements |-> e1],
                                    [page |-> p2, elements |-> e2] >>]
  /\ parser = "new" /\ colors = None /\ gradients = None /\ scene = None
  /\ parseState = "idle" /\ parseCalls = 0 /\ logger = <<>>
  /\ stack = <<>> /\ spreadTask = <<>> /\ elementTask = <<>>
  /\ TransformIdle /\ PathIdle /\ PlacementIdle /\ ColorIdle /\ GradientIdle
  /\ FrameIdle /\ SplitIdle /\ StopIdle /\ UpdateIdle /\ RenderIdle /\ EntityIdle /\ FontIdle

parseRest ==
  <<transformVars, pathVars, placementVars, colorVars, gradientVars, frameVars, splitVars,
    stopVars, updateVars, renderVars, entityVars, fontVars>>

\* new IDMLParser(engine, idml): the maps, then the page size of the first
\* spread's page, which throws when that spread has no Page
Construct ==
  /\ parser = "new"
  /\ colors' = Some(extractColors(GraphicColors))
  /\ gradients' = Some(extractGradients(GraphicGradients, extractColors(GraphicColors)))
  /\ LET firstPage == idml.spreads[1].page
     IN IF firstPage = None
        THEN parser' = "failed" /\ UNCHANGED scene
        ELSE /\ parser' = "constructed"
             /\ scene' = Some([width |-> Frac(getPageAttributes(Get(firstPage)).width, POINT_TO_INCH),
                               height |-> Frac(getPageAttributes(Get(firstPage)).height, POINT_TO_INCH)])
  /\ UNCHANGED <<idml, parseState, parseCalls, logger, stack, spreadTask, elementTask, parseRest>>

\* the page block a spread's callback creates and appends to the stack
pageBlock(spread, s, call) ==
  [call |-> call, spread |-> s,
   width |-> Frac(getPageAttributes(Get(spread.page)).width, POINT_TO_INCH),
   height |-> Frac(getPageAttributes(Get(spread.page)).height, POINT_TO_INCH),
   children |-> <<>>]

RECURSIVE pageBlocks(_, _, _)
pageBlocks(spreads, s, call) ==
  IF s > Len(spreads) THEN <<>>
  ELSE (IF spreads[s].page = None THEN <<>> ELSE << pageBlock(spreads[s], s, call) >>)
         \o pageBlocks(spreads, s + 1, call)

\* a spread callback up to its await: it throws without a Page
startSpread(spread) == IF spread.page = None THEN "rejected" ELSE "pending"

\* an element callback up to its await: nothing for a hidden element, a throw
\* in getTransformAndShapeProperties without ItemTransform
startElement(spread, element) ==
  IF spread.page = None THEN "none"
  ELSE IF ~ element.Visible THEN "fulfilled"
  ELSE IF ~ element.ItemTransform THEN "rejected"
  ELSE "pending"

Waiting ==
  \/ \E s \in 1..Len(spreadTask) : spreadTask[s] = "pending"
  \/ \E s \in 1..Len(elementTask) : \E e \in 1..Len(elementTask[s]) : elementTask[s][e] = "pending"

\* parse(): a new logger, then every spread callback and every callback of
\* its elements is started, in document order
StartParse ==
  /\ parser = "constructed" /\ parseState # "pending" /\ ~ Waiting
  /\ parseCalls < MaxParseCalls
  /\ parseCalls' = parseCalls + 1
  /\ parseState' = "pending"
  /\ logger' = <<>>
  /\ stack' = stack \o pageBlocks(idml.spreads, 1, parseCalls + 1)
  /\ spreadTask' = [s \in 1..Len(idml.spreads) |-> startSpread(idml.spreads[s])]
  /\ elementTask' = [s \in 1..Len(idml.spreads) |->
                       [e \in 1..Len(idml.spreads[s].elements) |->
                          startElement(idml.spreads[s], idml.spreads[s].elements[e])]]
  /\ UNCHANGED <<idml, parser, colors, gradients, scene, parseRest>>

pageIndex(s) == CHOOSE i \in 1..Len(stack) : stack[i].call = parseCalls /\ stack[i].spread = s

\* the rest of an element callback: image fill, stroke, appendChild, fill;
\* applyStroke throws when the object style is not found
ResumeElement ==
  \E s \in 1..Len(elementTask) : \E e \in 1..Len(elementTask[s]) :
    /\ elementTask[s][e] = "pending"
    /\ LET element == idml.spreads[s].elements[e]
       IN \E loaded \in (IF element.Image = "Embedded" THEN BOOLEAN ELSE {TRUE}) :
            LET created == [element |-> e, kind |-> "shape", fill |-> None, stroke |-> None]
                imaged == applyImageFill(created, element, loaded)
                stroked == applyStroke(imaged.block, element, Get(colors))
                filled == IF stroked.kind = "shape"
                          THEN applyFill(stroked, element, Get(colors), Get(gradients))
                          ELSE [block |-> stroked, log |-> <<>>,
                                colors |-> Get(colors), gradients |-> Get(gradients)]
            IN IF ~ element.ObjectStyle
               THEN /\ logger' = logger \o imaged.log
                    /\ elementTask' = [elementTask EXCEPT ![s][e] = "rejected"]
                    /\ UNCHANGED <<stack, colors, gradients>>
               ELSE /\ stack' = [stack EXCEPT ![pageIndex(s)].children = Append(@, filled.block)]
                    /\ logger' = logger \o imaged.log \o filled.log
                    /\ colors' = Some(filled.colors)
                    /\ gradients' = Some(filled.gradients)
                    /\ elementTask' = [elementTask EXCEPT ![s][e] = "fulfilled"]
    /\ UNCHANGED <<idml, parser, scene, parseState, parseCalls, spreadTask, parseRest>>

\* the blocks in the order of their elements
reorder(children) ==
  [k \in 1..Len(children) |->
     CHOOSE c \in { children[i] : i \in 1..Len(children) } :
       Cardinality({ i \in 1..Len(children) : children[i].element < c.element }) = k - 1]

\* Promise.all of the element callbacks fulfilled: insertChild in document order
FinishSpread ==
  \E s \in 1..Len(spreadTask) :
    /\ spreadTask[s] = "pending"
    /\ \A e \in 1..Len(elementTask[s]) : elementTask[s][e] = "fulfilled"
    /\ stack' = [stack EXCEPT ![pageIndex(s)].children = reorder(@)]
    /\ spreadTask' = [spreadTask EXCEPT ![s] = "fulfilled"]
    /\ UNCHANGED <<idml, parser, colors, gradients, scene, parseState, parseCalls, logger,
                   elementTask, parseRest>>

\* Promise.all of the element callbacks rejected: the spread callback rejects
RejectSpread ==
  \E s \in 1..Len(spreadTask) :
    /\ spreadTask[s] = "pending"
    /\ \E e \in 1..Len(elementTask[s]) : elementTask[s][e] = "rejected"
    /\ spreadTask' = [spreadTask EXCEPT ![s] = "rejected"]
    /\ UNCHANGED <<idml, parser, colors, gradients, scene, parseState, parseCalls, logger,
                   stack, elementTask, parseRest>>

\* Promise.all of the spread callbacks fulfilled: parse() returns scene and logger
ResolveParse ==
  /\ parseState = "pending"
  /\ \A s \in 1..Len(spreadTask) : spreadTask[s] = "fulfilled"
  /\ parseState' = "resolved"
  /\ UNCHANGED <<idml, parser, colors, gradients, scene, parseCalls, logger, stack,
                 spreadTask, elementTask, parseRest>>

\* Promise.all of the spread callbacks rejected: parse() rejects
RejectParse ==
  /\ parseState = "pending"
  /\ \E s \in 1..Len(spreadTask) : spreadTask[s] = "rejected"
  /\ parseState' = "rejected"
  /\ UNCHANGED <<idml, parser, colors, gradients, scene, parseCalls, logger, stack,
                 spreadTask, elementTask, parseRest>>

ParseNext ==
  \/ Construct \/ StartParse \/ ResumeElement \/ FinishSpread \/ RejectSpread
  \/ ResolveParse \/ RejectParse

SpecParse == ParseInit /\ [][ParseNext]_vars
(***************************************************************************)
(* Specification of the gradient extraction.                               *)
(***************************************************************************)
StopInit ==
  /\ gradientTag \in GradientTags
  /\ gradientEntry = None
  /\ TransformIdle /\ PathIdle /\ PlacementIdle /\ ColorIdle /\ GradientIdle
  /\ FrameIdle /\ SplitIdle /\ ParseIdle /\ UpdateIdle /\ RenderIdle /\ EntityIdle /\ FontIdle

\* extractGradients on a Graphic.xml with this one Gradient element
ExtractGradient ==
  /\ gradientEntry = None
  /\ gradientEntry' =
       Some(extractGradients(<< gradientTag >>, extractColors(GraphicColors))[1][2])
  /\ UNCHANGED <<gradientTag, transformVars, pathVars, placementVars, colorVars, gradientVars,
                 frameVars, splitVars, parseVars, updateVars, renderVars, entityVars, fontVars>>

StopNext == ExtractGradient

SpecStops == StopInit /\ [][StopNext]_vars
(***************************************************************************)
(* Specification of renderPageElements for one page.  The callbacks of the *)
(* page items start in document order and run up to their first await;     *)
(* their continuations interleave.                                         *)
(***************************************************************************)
RenderInit ==
  /\ renderChildren \in SeqsUpTo(RenderItems, MaxRenderElements)
  /\ renderTask = <<>> /\ nestedTask = <<>> /\ pageChildren = <<>>
  /\ renderState = "idle" /\ completionOrder = <<>> /\ renderLog = <<>>
  /\ TransformIdle /\ PathIdle /\ PlacementIdle /\ ColorIdle /\ GradientIdle
  /\ FrameIdle /\ SplitIdle /\ ParseIdle /\ StopIdle /\ UpdateIdle /\ EntityIdle /\ FontIdle

renderRest ==
  <<transformVars, pathVars, placementVars, colorVars, gradientVars, frameVars, splitVars,
    parseVars, stopVars, updateVars, entityVars, fontVars>>

\* renderPageElements(pageElement, spread, pageBlock) up to its await
StartRender ==
  /\ renderState = "idle"
  /\ renderState' = "pending"
  /\ renderTask' = [e \in 1..Len(renderChildren) |-> startTask(renderChildren[e])]
  /\ nestedTask' = [e \in 1..Len(renderChildren) |->
                      IF renderChildren[e].Visible
                      THEN [c \in 1..Len(renderChildren[e].Children) |->
                              startTask(renderChildren[e].Children[c])]
                      ELSE <<>>]
  /\ UNCHANGED <<renderChildren, pageChildren, completionOrder, renderLog, renderRest>>

Paths ==
  { << e >> : e \in 1..Len(renderTask) }
    \cup UNION { { << e, c >> : c \in 1..Len(nestedTask[e]) } : e \in 1..Len(nestedTask) }

elementAt(path) ==
  IF Len(path) = 1 THEN renderChildren[path[1]] ELSE renderChildren[path[1]].Children[path[2]]

taskAt(path) == IF Len(path) = 1 THEN renderTask[path[1]] ELSE nestedTask[path[1]][path[2]]

setTask(path, task) ==
  IF Len(path) = 1
  THEN renderTask' = [renderTask EXCEPT ![path[1]] = task] /\ UNCHANGED nestedTask
  ELSE nestedTask' = [nestedTask EXCEPT ![path[1]][path[2]] = task] /\ UNCHANGED renderTask

\* the callback returns the blocks of done
return(path, done) ==
  /\ setTask(path, [status |-> "fulfilled", blocks |-> done.blocks])
  /\ pageChildren' = done.page
  /\ renderLog' = renderLog \o done.log
  /\ completionOrder' = IF Len(path) = 1 THEN Append(completionOrder, path[1]) ELSE completionOrder

\* the rest of a Rectangle callback; the image may fail to load
ResumeRectangle ==
  \E path \in Paths :
    /\ taskAt(path).status = "image"
    /\ \E loaded \in (IF elementAt(path).Image = "Embedded" THEN BOOLEAN ELSE {TRUE}) :
         return(path, renderRectangle(path, elementAt(path), loaded, pageChildren))
    /\ UNCHANGED <<renderChildren, renderState, renderRest>>

\* the font resolver answers a text run of a TextFrame, with or without a typeface
ResolveFont ==
  \E path \in Paths :
    /\ taskAt(path).status = "font"
    /\ setTask(path, [status |-> "settled", blocks |-> <<>>])
    /\ \E found \in BOOLEAN :
         renderLog' = IF found THEN renderLog
                      ELSE Append(renderLog, "Could not find typeface for font")
    /\ UNCHANGED <<renderChildren, pageChildren, renderState, completionOrder, renderRest>>

\* the rest of a TextFrame callback, after Promise.allSettled of its text runs
ResumeTextFrame ==
  \E path \in Paths :
    /\ taskAt(path).status = "settled"
    /\ return(path, renderTextFrame(path, elementAt(path), pageChildren))
    /\ UNCHANGED <<renderChildren, renderState, renderRest>>

\* the rest of a Group callback, once the callbacks of its children returned
FinishGroup ==
  \E e \in 1..Len(renderTask) :
    /\ renderTask[e].status = "nested"
    /\ \A c \in 1..Len(nestedTask[e]) : nestedTask[e][c].status = "fulfilled"
    /\ return(<< e >>, renderGroup(<< e >>, flat(nestedTask[e]), pageChildren))
    /\ UNCHANGED <<renderChildren, renderState, renderRest>>

\* Promise.all of the callbacks fulfilled: the blocks are put in order and
\* renderPageElements resolves
FinishRender ==
  /\ renderState = "pending"
  /\ \A e \in 1..Len(renderTask) : renderTask[e].status = "fulfilled"
  /\ pageChildren' = reorderPage(pageChildren, flat(renderTask))
  /\ renderState' = "resolved"
  /\ UNCHANGED <<renderChildren, renderTask, nestedTask, completionOrder, renderLog, renderRest>>

RenderNext ==
  \/ StartRender \/ ResumeRectangle \/ ResolveFont \/ ResumeTextFrame \/ FinishGroup
  \/ FinishRender

SpecRender == RenderInit /\ [][RenderNext]_vars
(***************************************************************************)
(* Specification of the text content of a Content element.                 *)
(***************************************************************************)
EntityInit ==
  /\ contentText \in SeqsUpTo(ContentChars, MaxContent)
  /\ innerHTML = escape(contentText)
  /\ rangeContent = None
  /\ TransformIdle /\ PathIdle /\ PlacementIdle /\ ColorIdle /\ GradientIdle
  /\ FrameIdle /\ SplitIdle /\ ParseIdle /\ StopIdle /\ UpdateIdle /\ RenderIdle /\ FontIdle

\* rangeContent += replaceSpecialCharacters(child.innerHTML)
ReplaceSpecialCharacters ==
  /\ rangeContent = None
  /\ rangeContent' = Some(replaceSpecialCharacters(innerHTML))
  /\ UNCHANGED <<contentText, innerHTML, transformVars, pathVars, placementVars, colorVars,
                 gradientVars, frameVars, splitVars, parseVars, stopVars, updateVars,
                 renderVars, fontVars>>

EntityNext == ReplaceSpecialCharacters

SpecEntities == EntityInit /\ [][EntityNext]_vars
(***************************************************************************)
(* Specification of the Google Fonts asset library: calls of               *)
(* addGoogleFontsAssetLibrary on one engine, each running up to its await  *)
(* of the fetch, and calls of fontResolver in between.                     *)
(***************************************************************************)
FontInit ==
  /\ assetSources = {} /\ sourceAssets = <<>>
  /\ contentAssets \in ContentLists
  /\ fontCall = [i \in 1..MaxFontCalls |-> "idle"]
  /\ typefaceResult = None
  /\ TransformIdle /\ PathIdle /\ PlacementIdle /\ ColorIdle /\ GradientIdle
  /\ FrameIdle /\ SplitIdle /\ ParseIdle /\ StopIdle /\ UpdateIdle /\ RenderIdle /\ EntityIdle

fontRest ==
  <<transformVars, pathVars, placementVars, colorVars, gradientVars, frameVars, splitVars,
    parseVars, stopVars, updateVars, renderVars, entityVars>>

\* addGoogleFontsAssetLibrary up to its await: it returns when the source
\* exists, else it adds the source and starts the fetch
StartAddLibrary ==
  \E i \in 1..Len(fontCall) :
    /\ fontCall[i] = "idle"
    /\ \A j \in 1..(i - 1) : fontCall[j] # "idle"
    /\ IF typefaceLibrary \in assetSources
       THEN /\ fontCall' = [fontCall EXCEPT ![i] = "resolved"]
            /\ UNCHANGED assetSources
       ELSE /\ assetSources' = assetSources \cup {typefaceLibrary}
            /\ fontCall' = [fontCall EXCEPT ![i] = "fetching"]
    /\ UNCHANGED <<sourceAssets, contentAssets, typefaceResult, fontRest>>

\* the fetch answered: every asset of the content is added to the source
FetchResolved ==
  \E i \in 1..Len(fontCall) :
    /\ fontCall[i] = "fetching"
    /\ sourceAssets' = sourceAssets \o contentAssets
    /\ fontCall' = [fontCall EXCEPT ![i] = "resolved"]
    /\ UNCHANGED <<assetSources, contentAssets, typefaceResult, fontRest>>

\* the fetch failed: the call rejects
FetchRejected ==
  \E i \in 1..Len(fontCall) :
    /\ fontCall[i] = "fetching"
    /\ fontCall' = [fontCall EXCEPT ![i] = "rejected"]
    /\ UNCHANGED <<assetSources, sourceAssets, contentAssets, typefaceResult, fontRest>>

\* one call of fontResolver
ResolveTypeface ==
  \E family \in FontFamilies :
    /\ typefaceResult' = Some(fontResolver(family, assetSources, sourceAssets))
    /\ UNCHANGED <<assetSources, sourceAssets, contentAssets, fontCall, fontRest>>

FontNext == StartAddLibrary \/ FetchResolved \/ FetchRejected \/ ResolveTypeface

SpecFonts == FontInit /\ [][FontNext]_vars
(***************************************************************************)
(* Claims about the transform algebra.                                     *)
(***************************************************************************)
IsTranslation(m) == m[1] = 1 /\ m[2] = 0 /\ m[3] = 0 /\ m[4] = 1

\* C2: for a list [A, B], applying the composed matrix to a point p gives
\* A applied to (B applied to p), with apply(M, (x,y)) = (a*x + c*y + e,
\* b*x + d*y + f); [translate, scale] keeps the translation unscaled and
\* [scale, translate] scales it.
C2_ComposeIsMatrixProduct ==
  (Len(transforms) = 2 /\ combined # None) =>
    LET A == transforms[1]
        B == transforms[2]
        M == Get(combined)
    IN /\ mapped # None =>
            /\ Get(mapped) = transformPoint(A, transformPoint(B, Get(point)))
            /\ Get(mapped) = <<M[1] * Get(point)[1] + M[3] * Get(point)[2] + M[5],
                               M[2] * Get(point)[1] + M[4] * Get(point)[2] + M[6]>>
       /\ (IsTranslation(A) /\ B[5] = 0 /\ B[6] = 0) =>
            M = <<B[1], B[2], B[3], B[4], A[5], A[6]>>
       /\ (IsTranslation(B) /\ A[5] = 0 /\ A[6] = 0) =>
            M = <<A[1], A[2], A[3], A[4],
                  A[1] * B[5] + A[3] * B[6], A[2] * B[5] + A[4] * B[6]>>

C2_Witness ==
  /\ transforms = << <<1, 0, 0, 1, 10, 20>>, <<2, 0, 0, 3, 0, 0>> >>
  /\ combined = Some(<<2, 0, 0, 3, 10, 20>>)
  /\ point = Some(<<2, -3>>)
  /\ mapped = Some(<<14, 11>>)

\* C3: composing any matrix A with the identity matrix, on either side,
\* gives A.
C3_IdentityIsNeutral ==
  (Len(transforms) = 2 /\ combined # None) =>
    /\ transforms[2] = Identity => Get(combined) = transforms[1]
    /\ transforms[1] = Identity => Get(combined) = transforms[2]

C3_Witness ==
  /\ transforms = << <<1, 2, 3, 4, 10, 20>>, Identity >>
  /\ combined = Some(<<1, 2, 3, 4, 10, 20>>)

\* C4: composition is associative: composing [A, B, C] gives the same matrix
\* as composing [compose([A, B]), C], and as composing [A, compose([B, C])].
C4_Associative ==
  (Len(transforms) = 3 /\ combined # None) =>
    /\ Get(combined) =
         multiplyItemTransforms(
           <<multiplyItemTransforms(<<transforms[1], transforms[2]>>), transforms[3]>>)
    /\ Get(combined) =
         multiplyItemTransforms(
           <<transforms[1], multiplyItemTransforms(<<transforms[2], transforms[3]>>)>>)

C4_Witness ==
  /\ transforms = << <<2, 0, 0, 3, 1, 0>>, <<0, 1, -1, 0, 0, 1>>, <<1, 2, 3, 4, 10, 20>> >>
  /\ combined # None
  /\ multiplyItemTransforms(<<transforms[1], transforms[2]>>)
       # multiplyItemTransforms(<<transforms[2], transforms[1]>>)

(***************************************************************************)
(* Claims about the path geometry.                                         *)
(***************************************************************************)
\* the x values (k = 1) or y values (k = 2) of the anchors and of both handles
UnionValues(points, k) ==
  UNION { { points[i].Anchor[k], points[i].LeftDirection[k], points[i].RightDirection[k] } :
            i \in 1..Len(points) }

\* C1: the bounding box of parsePathGeometry is the min/max over the union of
\* the Anchor, LeftDirection and RightDirection coordinates of every point, so
\* a handle outside the extent of the anchors makes the box grow to contain it.
C1_BoundingBoxCoversControlPoints ==
  shapeGeometry # None =>
    LET g == Get(shapeGeometry)
        pts == pathGeometry.PathPointArray
    IN /\ g.x = MinOf(UnionValues(pts, 1))
       /\ g.y = MinOf(UnionValues(pts, 2))
       /\ g.width = MaxOf(UnionValues(pts, 1)) - MinOf(UnionValues(pts, 1))
       /\ g.height = MaxOf(UnionValues(pts, 2)) - MinOf(UnionValues(pts, 2))

\* the path data the claim describes for the sub-path points, moved by (-x, -y)
Translated(p, x, y) == <<p[1] - x, p[2] - y>>

ClaimedPathData(points, x, y) ==
  << [cmd |-> "M", args |-> << Translated(points[1].Anchor, x, y) >>] >>
    \o [i \in 1..(Len(points) - 1) |->
          [cmd |-> "C",
           args |-> << Translated(points[i].RightDirection, x, y),
                       Translated(points[i + 1].LeftDirection, x, y),
                       Translated(points[i + 1].Anchor, x, y) >>]]

IsDrawCommand(c) == c.cmd # "Z"

\* C19: for a sub-path of n points the path data is one move to the first
\* anchor followed by exactly n - 1 cubic commands, the segment from point i
\* to point i + 1 having the control points RightDirection of point i and
\* LeftDirection of point i + 1 and ending at the Anchor of point i + 1, all
\* moved by (-x_min, -y_min).
C19_SegmentControlPoints ==
  shapeGeometry # None =>
    SelectSeq(Get(shapeGeometry).pathData, IsDrawCommand)
      = ClaimedPathData(pathGeometry.PathPointArray,
                        Get(shapeGeometry).x, Get(shapeGeometry).y)

(***************************************************************************)
(* Claims about the placement.                                             *)
(***************************************************************************)
RECURSIVE PresentTransforms(_)
\* the ItemTransforms of the containers that have one, in the order of the list
PresentTransforms(cs) ==
  IF cs = <<>> THEN <<>>
  ELSE (IF Head(cs) = None THEN <<>> ELSE <<Get(Head(cs))>>) \o PresentTransforms(Tail(cs))

\* the five placement values the claims speak of
PlacementOf(r) == <<r.x, r.y, r.widthSq, r.heightSq, r.rotation>>

\* cs with container c inserted after position i
InsertAt(cs, i, c) == SubSeq(cs, 1, i) \o <<c>> \o SubSeq(cs, i + 1, Len(cs))

\* C5: for an element under ancestors G1 (outermost) .. Gk (immediate parent)
\* the matrices are composed in the order [G1, ..., Gk, element]; the resolved
\* position and rotation are those of G1*...*Gk*E.
C5_OutermostAncestorFirst ==
  placement # None =>
    LET M == multiplyItemTransforms(PresentTransforms(containers) \o <<elementItemTransform>>)
        shape == Get(shapeGeometry)
        corner == transformPoint(M, <<shape.x, shape.y>>)
    IN /\ Get(placement).x = corner[1] - page.ItemTransform[5] - page.GeometricBounds[2]
       /\ Get(placement).y = corner[2] - page.ItemTransform[6] - page.GeometricBounds[1]
       /\ Get(placement).rotation = Angle(M[1], M[2])

\* C6: the placement (x, y, width, height, rotation) does not change when a
\* container without ItemTransform, or with the identity ItemTransform, is
\* inserted at any depth between the element and the Spread.
C6_TransparentContainers ==
  placement # None =>
    \A i \in 0..Len(containers) : \A c \in {None, Some(Identity)} :
      PlacementOf(getTransformAndShapeProperties(InsertAt(containers, i, c),
                                                 elementItemTransform, pathGeometry, page))
        = PlacementOf(Get(placement))

C6_Witness ==
  /\ placement # None
  /\ containers = << Some(<<0, 1, -1, 0, 10, 20>>), Some(<<2, 0, 0, 3, 1, 0>>) >>
  /\ elementItemTransform = <<1, 2, 3, 4, 10, 20>>
  /\ PlacementOf(getTransformAndShapeProperties(InsertAt(containers, 1, None),
                                                elementItemTransform, pathGeometry, page))
       = PlacementOf(Get(placement))

\* C7: (x, y) is the composed matrix applied to the top-left corner of the
\* local bounding box, minus the translation (e, f) of the page ItemTransform,
\* minus the GeometricBounds origin (left, top); prepending
\* getPageTransformMatrix(page) to the transform list gives the same point as
\* subtracting the page translation afterwards.
C7_PagePosition ==
  placement # None =>
    LET list == allTransforms(ancestors(containers, Len(containers))) \o <<elementItemTransform>>
        shape == Get(shapeGeometry)
        corner == transformPoint(multiplyItemTransforms(list), <<shape.x, shape.y>>)
        viaPageMatrix ==
          transformPoint(
            multiplyItemTransforms(<<getPageTransformMatrix(page.ItemTransform)>> \o list),
            <<shape.x, shape.y>>)
    IN /\ Get(placement).x = corner[1] - page.ItemTransform[5] - page.GeometricBounds[2]
       /\ Get(placement).y = corner[2] - page.ItemTransform[6] - page.GeometricBounds[1]
       /\ viaPageMatrix = toPagePosition(page.ItemTransform, corner)
       /\ Get(placement).x = viaPageMatrix[1] - page.GeometricBounds[2]
       /\ Get(placement).y = viaPageMatrix[2] - page.GeometricBounds[1]

C7_Witness ==
  /\ placement # None
  /\ page = [ItemTransform |-> <<1, 0, 0, 1, -75, -36>>,
             GeometricBounds |-> <<-36, -25, 110, 175>>]
  /\ containers = << Some(<<0, 1, -1, 0, 10, 20>>) >>
  /\ elementItemTransform = <<2, 0, 0, 3, 10, 20>>
  /\ Get(shapeGeometry).x = 2 /\ Get(shapeGeometry).y = 3
  /\ Get(placement).x = -19 + 75 + 25
  /\ Get(placement).y = 34 + 36 + 36

(***************************************************************************)
(* Claims about colours and gradients.                                     *)
(***************************************************************************)
InUnitInterval(q) == FLe(FZero, q) /\ FLe(q, FOne)

\* r = 1 - min(1, c*(1-k) + k) for components given in percent, written over
\* the common denominator 100 * 100
ClaimedChannel(C, K) ==
  Frac(100 * 100 - Min2(100 * 100, C * (100 - K) + 100 * K), 100 * 100)

\* C8: for CMYK components given as percentages in 0..100 the colour is
\* r = 1 - min(1, c*(1-k) + k), likewise g from m and b from y, alpha is 1 and
\* every channel lies in [0,1]; (0,0,0,0) is white and (0,0,0,100) is black.
C8_CmykToRgba ==
  (rgba # None /\ colorTag.Space = "CMYK") =>
    LET v == colorTag.ColorValue
        col == Get(rgba)
    IN /\ col.r = ClaimedChannel(v[1], v[4])
       /\ col.g = ClaimedChannel(v[2], v[4])
       /\ col.b = ClaimedChannel(v[3], v[4])
       /\ col.a = FOne
       /\ InUnitInterval(col.r) /\ InUnitInterval(col.g) /\ InUnitInterval(col.b)
       /\ v = <<0, 0, 0, 0>> => col = [r |-> FOne, g |-> FOne, b |-> FOne, a |-> FOne]
       /\ v = <<0, 0, 0, 100>> => col = [r |-> FZero, g |-> FZero, b |-> FZero, a |-> FOne]

C8_Witness ==
  /\ colorTag = [Space |-> "CMYK", ColorValue |-> <<0, 50, 100, 50>>]
  /\ rgba = Some([r |-> <<1, 2>>, g |-> <<1, 4>>, b |-> <<0, 1>>, a |-> <<1, 1>>])

\* C20: for a Color element whose Space is neither CMYK nor RGB extractColors
\* maps the id to opaque black and a warning is logged for it.
C20_UnknownSpaceBlackAndWarned ==
  (rgba # None /\ colorTag.Space \notin {"CMYK", "RGB"}) =>
    /\ Get(rgba) = [r |-> FZero, g |-> FZero, b |-> FZero, a |-> FOne]
    /\ colorLog # <<>>

(***************************************************************************)
(* Claims about the text frame ordering.                                   *)
(***************************************************************************)
\* the orders of the set S of frames: sequences holding every frame of S once
OrdersOf(S) ==
  { o \in [1..Cardinality(S) -> S] : \A f \in S : \E i \in 1..Cardinality(S) : o[i] = f }

\* o starts at a head, follows NextTextFrame from each frame to the next, and ends in "n"
IsChain(o) ==
  /\ Len(o) >= 1
  /\ o[1].PreviousTextFrame = "n"
  /\ \A i \in 1..(Len(o) - 1) : o[i].NextTextFrame = o[i + 1].Self
  /\ o[Len(o)].NextTextFrame = "n"

FrameSet(frames) == { frames[i] : i \in 1..Len(frames) }

\* distinct Self ids, exactly one head, and the links form one path through all frames
WellFormedChain(frames) ==
  /\ Len(frames) >= 1
  /\ \A i, j \in 1..Len(frames) : i # j => frames[i].Self # frames[j].Self
  /\ Cardinality({ i \in 1..Len(frames) : frames[i].PreviousTextFrame = "n" }) = 1
  /\ \E o \in OrdersOf(FrameSet(frames)) : IsChain(o)

\* C10: for a well-formed chain of n >= 1 frames orderTextFrames returns the n
\* frames in chain order, for every permutation of the input array: the
\* result is determined by the set of frames alone.
C10_ChainOrder ==
  (pc = "done" /\ WellFormedChain(textFrames)) =>
    /\ ~ Get(orderResult).isNull
    /\ Get(orderResult).frames \in OrdersOf(FrameSet(textFrames))
    /\ IsChain(Get(orderResult).frames)
    /\ \A o \in OrdersOf(FrameSet(textFrames)) : IsChain(o) => Get(orderResult).frames = o

C10_Witness ==
  /\ pc = "done"
  /\ textFrames =
       << [Self |-> "c", PreviousTextFrame |-> "b", NextTextFrame |-> "n"],
          [Self |-> "a", PreviousTextFrame |-> "n", NextTextFrame |-> "b"],
          [Self |-> "b", PreviousTextFrame |-> "a", NextTextFrame |-> "c"] >>
  /\ Get(orderResult).frames = << textFrames[2], textFrames[3], textFrames[1] >>

NoDuplicates(s) == \A i, j \in 1..Len(s) : i # j => s[i] # s[j]

\* C11: for every list of frames, whatever their NextTextFrame and
\* PreviousTextFrame links (cycles and links to unknown ids included),
\* orderTextFrames returns, and the list it walked and the list it returns hold
\* no frame more than once.
C11_TerminatesWithoutDuplicates ==
  /\ <>(pc = "done")
  /\ [](NoDuplicates(ordered) /\ Len(ordered) <= Len(textFrames))
  /\ [](pc = "done" =>
         /\ orderResult # None
         /\ NoDuplicates(Get(orderResult).frames))

\* the cycle a -> b -> a: the walk stops at the second visit of a
C11_Witness ==
  /\ pc = "done"
  /\ textFrames =
       << [Self |-> "a", PreviousTextFrame |-> "n", NextTextFrame |-> "b"],
          [Self |-> "b", PreviousTextFrame |-> "a", NextTextFrame |-> "a"] >>
  /\ Get(orderResult) = [isNull |-> FALSE, frames |-> textFrames]
  /\ warnings = << "! Loop detected" >>

(***************************************************************************)
(* Claims about the text split.                                            *)
(***************************************************************************)
\* C12, as stated: for every text of any length and every frame count >= 1
\* calculateSplitIndices returns exactly numFrames - 1 indices.
C12_AlwaysFrameCountMinusOne ==
  (splitIndices # None /\ numFrames >= 1) =>
    Len(Get(splitIndices)) = numFrames - 1

\* C12, amended: for every text of at least one character and every frame
\* count >= 1 calculateSplitIndices returns exactly numFrames - 1 indices; for
\* the empty text it returns no index, whatever the frame count.
C12_SplitCount ==
  (splitIndices # None /\ numFrames >= 1) =>
    Len(Get(splitIndices)) = IF Len(fullText) = 0 THEN 0 ELSE numFrames - 1

\* one character for three frames: two indices
C12_Witness ==
  /\ fullText = << "x" >> /\ numFrames = 3
  /\ splitIndices = Some(<< 0, 1 >>)

\* the pieces fullText.substring(bounds[k], bounds[k + 1]) put together in order
RECURSIVE Pieces(_, _, _)
Pieces(text, bounds, k) ==
  IF k >= Len(bounds)
  THEN <<>>
  ELSE substring(text, bounds[k], bounds[k + 1]) \o Pieces(text, bounds, k + 1)

\* C13: the indices calculateSplitIndices returns never decrease and lie in
\* 0..fullText.length, so the substrings between consecutive indices (from 0
\* to the first, ..., from the last to the length) put together in order are
\* fullText itself.
C13_LosslessPartition ==
  splitIndices # None =>
    LET s == Get(splitIndices)
        bounds == << 0 >> \o s \o << Len(fullText) >>
    IN /\ \A k \in 1..(Len(bounds) - 1) : bounds[k] <= bounds[k + 1]
       /\ Pieces(fullText, bounds, 1) = fullText

\* a single break at index 34 of 48 characters, three frames: the first
\* split lands after the break, beyond the second target 32, which is clamped
C13_Witness ==
  /\ fullText = LongText(48, 34, "LF", 34, "LF") /\ numFrames = 3
  /\ splitIndices = Some(<< 35, 35 >>)

(***************************************************************************)
(* Claims about the parser.                                                *)
(***************************************************************************)
Spreads == idml.spreads

Resolvable(element) == element.ItemTransform /\ element.ObjectStyle

\* the page blocks the latest parse() call appended for spread s
PagesOf(s) == { i \in 1..Len(stack) : stack[i].call = parseCalls /\ stack[i].spread = s }

\* the indices of the elements of spread s that are visible and can be resolved
Rendered(s) ==
  { e \in 1..Len(Spreads[s].elements) :
      Spreads[s].elements[e].Visible /\ Resolvable(Spreads[s].elements[e]) }

\* the page of spread s exists and holds the blocks of Rendered(s) in document order
RenderedInOrder(s) ==
  \E i \in PagesOf(s) :
    /\ { stack[i].children[k].element : k \in 1..Len(stack[i].children) } = Rendered(s)
    /\ \A k \in 1..(Len(stack[i].children) - 1) :
         stack[i].children[k].element < stack[i].children[k + 1].element

\* C14: when exactly one spread has no Page element (and every page item can
\* be resolved), the parser is still built, parse() does not reject, and when
\* it has returned the page block and the elements of every other spread exist.
C14_MissingPageConfined ==
  ( /\ parser # "new"
    /\ Cardinality({ s \in 1..Len(Spreads) : Spreads[s].page = None }) = 1
    /\ \A s \in 1..Len(Spreads) : \A e \in 1..Len(Spreads[s].elements) :
         Resolvable(Spreads[s].elements[e]) ) =>
    /\ parser = "constructed"
    /\ parseState # "rejected"
    /\ parseState = "resolved" =>
         \A s \in 1..Len(Spreads) : Spreads[s].page # None => RenderedInOrder(s)

\* C15: when every spread has its Page and exactly one visible page item
\* cannot be resolved (no ItemTransform, or its object style is not found),
\* parse() does not reject, and when it has returned every other visible
\* sibling is a child of its page, in document order.
C15_ElementFailureConfined ==
  ( /\ parser = "constructed"
    /\ \A s \in 1..Len(Spreads) : Spreads[s].page # None
    /\ Cardinality({ se \in UNION { { <<s, e>> : e \in 1..Len(Spreads[s].elements) } :
                                      s \in 1..Len(Spreads) } :
                       /\ Spreads[se[1]].elements[se[2]].Visible
                       /\ ~ Resolvable(Spreads[se[1]].elements[se[2]]) }) = 1 ) =>
    /\ parseState # "rejected"
    /\ parseState = "resolved" => \A s \in 1..Len(Spreads) : RenderedInOrder(s)

\* C16: once the constructor has built this.colors and this.gradients, no
\* step of any parse() call changes them, whatever the order in which the
\* element callbacks run.
C16_MapsNeverChange ==
  [][parser = "constructed" => (colors' = colors /\ gradients' = gradients)]_vars

\* a second parse() has returned; each call filled one block from the colour
\* map and one from the gradient map
C16_Witness ==
  /\ parseCalls = 2 /\ parseState = "resolved"
  /\ colors = Some(extractColors(GraphicColors))
  /\ \A i \in 1..Len(stack) :
       /\ Len(stack[i].children) = 2
       /\ stack[i].children[1].fill =
            Some([type |-> "color", value |-> [r |-> FZero, g |-> FZero, b |-> FZero, a |-> FOne]])
       /\ stack[i].children[2].fill =
            Some([type |-> "Linear",
                  stops |-> Get(MapGet(Get(gradients), "Gradient/g1")).stops])
  /\ Len(stack) = 2

\* C17: every page block parse() creates has the width and the height of the
\* first spread's first page.
C17_PagesUseFirstPageSize ==
  \A i \in 1..Len(stack) :
    /\ stack[i].width = Frac(getPageAttributes(Get(Spreads[1].page)).width, POINT_TO_INCH)
    /\ stack[i].height = Frac(getPageAttributes(Get(Spreads[1].page)).height, POINT_TO_INCH)

\* C18: after parse() the image fill of every element that carries an
\* embedded image references an engine buffer (buffer://), never a data URI.
C18_ImageFillsUseBuffers ==
  parseState = "resolved" =>
    \A i \in 1..Len(stack) : \A k \in 1..Len(stack[i].children) :
      stack[i].children[k].kind = "image" =>
        Get(stack[i].children[k].fill).uri.scheme = "buffer"

(***************************************************************************)
(* Further claims about the text frame ordering.                           *)
(***************************************************************************)
\* C22: orderTextFrames returns null exactly when the input is non-empty and
\* no frame has PreviousTextFrame = "n"; for every other input, the empty
\* list included, it returns a list.
C22_NullOnlyWithoutHead ==
  pc = "done" =>
    (Get(orderResult).isNull <=>
       (Len(textFrames) > 0
          /\ \A i \in 1..Len(textFrames) : textFrames[i].PreviousTextFrame # "n"))

(***************************************************************************)
(* Claims about the gradient extraction.                                   *)
(***************************************************************************)
IsNumber(q) == q[2] # 0

\* C21: every stop of a gradient extractGradients returns has a position that
\* is a number in [0, 1]: Location / 100 when the stop has a Location with a
\* value, otherwise index / (count - 1), also for a single stop without
\* Location and for a Location that is the empty string.
C21_StopPositionsInUnitInterval ==
  gradientEntry # None =>
    \A k \in 1..Len(Get(gradientEntry).stops) :
      LET position == Get(gradientEntry).stops[k].stop
          location == gradientTag.GradientStops[k].Location
      IN /\ IsNumber(position)
         /\ InUnitInterval(position)
         /\ Truthy(location) => position = Frac(Get(location)[1], 100)

(***************************************************************************)
(* Further claims about the text split.                                    *)
(***************************************************************************)
\* the split before split i (numbered from 0), 0 before the first
previousSplit(i) == IF i = 0 THEN 0 ELSE Get(splitIndices)[i]

splitTarget(i) == target(Len(fullText), numFrames, i)
splitRadius == winRadius(Len(fullText), numFrames)

\* the line breaks that start within the radius of the target of split i
breaksNearTarget(i) ==
  { idx \in nlIndices(fullText) : Abs(idx - splitTarget(i)) <= splitRadius }

\* the line breaks the search of split i looks at: after the previous split,
\* from target - radius up to but not including target + radius
breaksInWindow(i) ==
  { idx \in nlIndices(fullText) :
      /\ idx > previousSplit(i)
      /\ idx >= splitTarget(i) - splitRadius
      /\ idx < splitTarget(i) + splitRadius }

\* the breaks of S closest to t
closestBreaks(S, t) == { a \in S : \A b \in S : Abs(a - t) <= Abs(b - t) }

MinOfSet(S) == CHOOSE a \in S : \A b \in S : a <= b

\* C23 as stated: when a line break starts within the radius of the target,
\* split i is the index right after a closest such break; otherwise it is the
\* target clamped to [previous split, length].
C23_SplitAfterBreakNearTarget ==
  (splitIndices # None /\ Get(splitIndices) # <<>>) =>
    \A i \in 0..(Len(Get(splitIndices)) - 1) :
      LET near == breaksNearTarget(i)
          split == Get(splitIndices)[i + 1]
      IN IF near # {}
         THEN \E a \in closestBreaks(near, splitTarget(i)) :
                split = a + nlMatchLength(fullText, a)
         ELSE split = Min2(Len(fullText), Max2(previousSplit(i), splitTarget(i)))

\* C23: the window of split i holds the line breaks that start after the
\* previous split, at or after target - radius and before target + radius.
\* When the window holds a break, split i is the index right after its break
\* closest to the target (the lower one of two equally close breaks);
\* otherwise it is the target clamped to [previous split, length].
C23_SplitAfterBreakInWindow ==
  (splitIndices # None /\ Get(splitIndices) # <<>>) =>
    \A i \in 0..(Len(Get(splitIndices)) - 1) :
      LET window == breaksInWindow(i)
          split == Get(splitIndices)[i + 1]
          a == MinOfSet(closestBreaks(window, splitTarget(i)))
      IN IF window # {}
         THEN split = a + nlMatchLength(fullText, a)
         ELSE split = Min2(Len(fullText), Max2(previousSplit(i), splitTarget(i)))

\* a text with a split taken after a break of its window and a later split
\* whose window is empty although a break lies within the radius of its target
C23_Witness ==
  /\ splitIndices # None
  /\ Len(Get(splitIndices)) >= 2
  /\ breaksInWindow(0) # {}
  /\ Get(splitIndices)[1] = MinOfSet(closestBreaks(breaksInWindow(0), splitTarget(0))) + 1
  /\ breaksInWindow(1) = {}
  /\ breaksNearTarget(1) # {}
  /\ Get(splitIndices)[2] = splitTarget(1)

\* C28: no split index returned by calculateSplitIndices lies between the CR
\* and the LF of a CRLF pair.
C28_NoSplitInsideCRLF ==
  splitIndices # None =>
    \A k \in 1..Len(Get(splitIndices)) :
      LET split == Get(splitIndices)[k]
      IN ~ (/\ split >= 1 /\ split < Len(fullText)
            /\ fullText[split] = "CR" /\ fullText[split + 1] = "LF")

(***************************************************************************)
(* Claims about the frame contents.                                        *)
(***************************************************************************)
\* C24: with the splits calculated for k >= 1 frames, updateString is called
\* once per frame in chain order, with ranges whose bounds are all defined
\* indices: the first starts at 0, each starts where the one before ends, no
\* start exceeds its end and the last ends at the length of the text.
C24_RangesTileTheText ==
  (updateOutcome = "returned" /\ numFrames >= 1) =>
    /\ Len(updateCalls) = numFrames
    /\ \A j \in 1..Len(updateCalls) :
         /\ updateCalls[j].block = j
         /\ updateCalls[j].startIdx # None
         /\ updateCalls[j].endIdx # None
         /\ Get(updateCalls[j].startIdx) <= Get(updateCalls[j].endIdx)
         /\ updateCalls[j].startIdx = IF j = 1 THEN Some(0) ELSE updateCalls[j - 1].endIdx
    /\ updateCalls[Len(updateCalls)].endIdx = Some(Len(fullText))

ranges(calls) == [j \in 1..Len(calls) |-> <<calls[j].block, calls[j].startIdx, calls[j].endIdx>>]

\* C25: when updateString throws for a frame, updateFrameContents returns
\* without throwing, the failure is logged, and updateString is called for
\* every frame with the ranges of a run without failures.
C25_FailureDoesNotStopLaterFrames ==
  updateOutcome # "none" =>
    /\ updateOutcome = "returned"
    /\ ranges(updateCalls) =
         ranges(updateFrameContents(framesWithBlocks(numFrames), fullText,
                                    Get(splitIndices), {}).calls)
    /\ Len(updateCalls) = numFrames
    /\ consoleErrors = SelectSeq([j \in 1..Len(updateCalls) |->
                                    IF updateCalls[j].threw THEN updateCalls[j].block ELSE 0],
                                 LAMBDA b : b # 0)

\* updateString threw for the first of three frames of a text with line
\* breaks, and the two later frames still received their ranges
C25_Witness ==
  /\ updateOutcome = "returned"
  /\ Len(updateCalls) = 3
  /\ updateCalls[1].threw
  /\ ~ updateCalls[2].threw
  /\ Len(fullText) > MaxShortText
  /\ updateCalls[2].startIdx = Some(Get(splitIndices)[1])
  /\ updateCalls[2].endIdx = Some(Get(splitIndices)[2])
  /\ updateCalls[3].endIdx = Some(Len(fullText))
  /\ consoleErrors = <<1>>

(***************************************************************************)
(* Claims about the page elements.                                         *)
(***************************************************************************)
VisibleElements == { e \in 1..Len(renderChildren) : renderChildren[e].Visible }

\* the positions (from 0) of the children of the page that belong to item e
childIndices(e, role) ==
  { k \in 0..(Len(pageChildren) - 1) :
      pageChildren[k + 1].element = << e >> /\ pageChildren[k + 1].role = role }

\* C26: when renderPageElements resolves, the children of the page block are
\* the blocks of the visible top-level items in document order, whatever the
\* order in which the callbacks of the items completed.
C26_ChildrenInDocumentOrder ==
  renderState = "resolved" =>
    /\ \A k \in 1..Len(pageChildren) : Len(pageChildren[k].element) = 1
    /\ { pageChildren[k].element[1] : k \in 1..Len(pageChildren) } = VisibleElements
    /\ \A k \in 1..(Len(pageChildren) - 1) :
         pageChildren[k].element[1] <= pageChildren[k + 1].element[1]
    /\ \A k, l \in 1..Len(pageChildren) : sameBlock(pageChildren[k], pageChildren[l]) => k = l
    /\ \A e \in VisibleElements :
         /\ Cardinality(childIndices(e, "item")) = 1
         /\ Cardinality(childIndices(e, "background")) =
              IF renderChildren[e].Tag = "TextFrame" /\ renderChildren[e].FillColor # "" THEN 1 ELSE 0

\* the callback of a later item returned before that of an earlier item, a
\* Group among them, and the page is in document order all the same
C26_Witness ==
  /\ renderState = "resolved"
  /\ Len(pageChildren) >= 2
  /\ \E i, j \in 1..Len(completionOrder) :
       /\ i < j
       /\ completionOrder[i] > completionOrder[j]
  /\ \E e \in VisibleElements : renderChildren[e].Tag = "Group"
  /\ pageChildren[1].element = << 1 >>
  /\ pageChildren[Len(pageChildren)].element[1] > 1

\* C27: for a TextFrame with FillColor, once renderPageElements has resolved,
\* the background rectangle has a lower child index in the page than the text
\* block of the frame.
C27_BackgroundBehindText ==
  renderState = "resolved" =>
    \A e \in VisibleElements :
      (renderChildren[e].Tag = "TextFrame" /\ renderChildren[e].FillColor # "") =>
        \A b \in childIndices(e, "background"), t \in childIndices(e, "item") : b < t

(***************************************************************************)
(* Claims about the special characters.                                    *)
(***************************************************************************)
\* C29: replaceSpecialCharacters undoes the escaping of the five predefined
\* entities: applied to the serialisation of a text it returns that text,
\* each entity decoded once.
C29_UnescapeInvertsEscape ==
  rangeContent # None => Get(rangeContent) = contentText

(***************************************************************************)
(* Claims about the Google Fonts asset library.                            *)
(***************************************************************************)
\* C30: whenever a call of addGoogleFontsAssetLibrary has resolved, the asset
\* source "ly.img.google-fonts" exists and holds every asset of the fetched
\* content exactly once, also with two calls in flight and after a call that
\* failed while fetching.
C30_ResolvedMeansLibraryFilled ==
  \A i \in 1..Len(fontCall) :
    fontCall[i] = "resolved" =>
      /\ typefaceLibrary \in assetSources
      /\ \A k \in 1..Len(contentAssets) :
           Cardinality({ l \in 1..Len(sourceAssets) : sourceAssets[l] = contentAssets[k] }) = 1

====
